---- MODULE Spec2Model ----
(***************************************************************************)
(* Node OS update orchestrator of the machine-config daemon:               *)
(* RpmOstreeClient (Rebase, SetKernelArgs, GetBootedDeployment,            *)
(* GetBootedOSImageURL) and the command executor it drives.                *)
(*                                                                         *)
(* A Go string is a sequence of one-character strings, so that prefix      *)
(* tests, trimming and splitting are computed character by character.      *)
(* The host is a black box: every external command either fails or         *)
(* succeeds with some output, and the trace records, in program order,     *)
(* each call of the rpm-ostree commander and each command really run.      *)
(***************************************************************************)
EXTENDS Integers, Sequences, FiniteSets, TLC

VARIABLES pc, trace, hostStatus, authFile, imgURL, osImageContentDir, ostreeCsum, deferRmi, pullAttempts, refs, changed, err, args, tokIdx, kargs, hostKargs, hostKargs0, out, osImageURL, version, deployment, argNoun, stubOp, stubCalls, cmdLine, plugins, stop, callerPc, loopIdx, p, perrs, wg, taskPc, taskPlugin, reporterPc, printed, reported, inhibitPc, child, cmdProcess, cmdProcessState, sigs, watcherPc, delivered, doneRuns, clusterOperator, vStore, inClusterBringup, syncs

vars == <<pc, trace, hostStatus, authFile, imgURL, osImageContentDir, ostreeCsum, deferRmi, pullAttempts, refs, changed, err, args, tokIdx, kargs, hostKargs, hostKargs0, out, osImageURL, version, deployment, argNoun, stubOp, stubCalls, cmdLine, plugins, stop, callerPc, loopIdx, p, perrs, wg, taskPc, taskPlugin, reporterPc, printed, reported, inhibitPc, child, cmdProcess, cmdProcessState, sigs, watcherPc, delivered, doneRuns, clusterOperator, vStore, inClusterBringup, syncs>>

rebaseVars == <<imgURL, osImageContentDir, ostreeCsum, deferRmi, pullAttempts, refs, changed>>

kargVars == <<args, tokIdx, kargs, hostKargs, hostKargs0, out>>

originVars == <<osImageURL, version>>

readerVars == <<deployment>>

execVars == <<argNoun>>

stubVars == <<stubOp, stubCalls, cmdLine>>

pluginVars == <<plugins, stop, callerPc, loopIdx, p, perrs, wg, taskPc, taskPlugin, reporterPc, printed, reported>>

inhibitVars == <<inhibitPc, child, cmdProcess, cmdProcessState, sigs, watcherPc, delivered, doneRuns>>

statusVars == <<clusterOperator, vStore, inClusterBringup, syncs>>

\* the state of the operations that the action at hand is no part of
otherVars == <<readerVars, execVars, stubVars, pluginVars, inhibitVars, statusVars>>

\* all of the update client
clientVars == <<pc, trace, hostStatus, authFile, rebaseVars, err, kargVars, originVars, readerVars, execVars, stubVars>>

\* everything but the plugin harness
outsidePlugins == <<clientVars, inhibitVars, statusVars>>

\* everything but the power-state inhibitor
outsideInhibit == <<clientVars, pluginVars, statusVars>>

\* everything but the operator's status reporting
outsideStatus == <<clientVars, pluginVars, inhibitVars>>

(***************************************************************************)
(* String literals of the source.                                          *)
(***************************************************************************)
realRpmOstreeCmd == <<"/","u","s","r","/","b","i","n","/","r","p","m","-","o","s","t","r","e","e">>
kubeletAuthFile == <<"/","v","a","r","/","l","i","b","/","k","u","b","e","l","e","t","/","c","o","n","f","i","g",".","j","s","o","n">>
sStatus == <<"s","t","a","t","u","s">>
sJson == <<"-","-","j","s","o","n">>
sKargs == <<"k","a","r","g","s">>
sPodman == <<"p","o","d","m","a","n">>
sPull == <<"p","u","l","l">>
sDashQ == <<"-","q">>
sAuthfile == <<"-","-","a","u","t","h","f","i","l","e">>
sInspect == <<"i","n","s","p","e","c","t">>
sTypeImage == <<"-","-","t","y","p","e","=","i","m","a","g","e">>
sRmi == <<"r","m","i">>
sOstree == <<"o","s","t","r","e","e">>
sRefs == <<"r","e","f","s">>
sRepoFlag == <<"-","-","r","e","p","o">>
sRevParse == <<"r","e","v","-","p","a","r","s","e">>
sRebase == <<"r","e","b","a","s","e">>
sExperimental == <<"-","-","e","x","p","e","r","i","m","e","n","t","a","l">>
sCustomOriginUrl == <<"-","-","c","u","s","t","o","m","-","o","r","i","g","i","n","-","u","r","l">>
sCustomOriginDescription == <<"-","-","c","u","s","t","o","m","-","o","r","i","g","i","n","-","d","e","s","c","r","i","p","t","i","o","n">>
sManagedBy == <<"M","a","n","a","g","e","d"," ","b","y"," ","m","a","c","h","i","n","e","-","c","o","n","f","i","g","-","o","p","e","r","a","t","o","r">>
sSrvRepo == <<"/","s","r","v","/","r","e","p","o">>
sColon == <<":">>
sPivot == <<"p","i","v","o","t",":","/","/">>
sAppend == <<"-","-","a","p","p","e","n","d","=">>
sDelete == <<"-","-","d","e","l","e","t","e","=">>
sCleanup == <<"c","l","e","a","n","u","p">>
sDashP == <<"-","p">>

numRetriesNetCommands == 5

(***************************************************************************)
(* Error values.  nil is the absent error; every other error is the text   *)
(* the source gives it.                                                    *)
(***************************************************************************)
Err(msg) == [msg |-> msg, cmd |-> <<>>]

nil == Err("nil")

errMalformed == Err("rpm-ostree command is malformed, not enough arguments")

errParseStatus == Err("failed to parse rpm-ostree status --json output")

errNotBooted == Err("not currently booted in a deployment")

errUnmarshalInspect == Err("unmarshaling podman inspect")

errMultipleRefs == Err("multiple refs found in repo")

errNoRefs == Err("No refs found in repo")

errImageInspect == Err("imageInspect failed")

\* the error pivotutils.RunExt gives once its retries are spent
errPull == [msg |-> "error running", cmd |-> <<sPodman, sPull>>]

\* errors.Wrapf(err, "error running %s %s: %s", command, args, rawOut)
errRunning(command, a) == [msg |-> "error running", cmd |-> <<command>> \o a]

(***************************************************************************)
(* Library functions on strings (Go's strings package).                    *)
(***************************************************************************)
HasPrefix(s, prefix) == Len(s) >= Len(prefix) /\ SubSeq(s, 1, Len(prefix)) = prefix

\* unicode.IsSpace, the class strings.TrimSpace trims: tab, line feed,
\* vertical tab, form feed, carriage return, space, U+0085 (NEL), U+00A0
\* (NBSP) and U+1680.  The white space from U+2000 on (U+2000..U+200A,
\* U+2028, U+2029, U+202F, U+205F, U+3000) cannot be written in a string of
\* this module, so no string of the model holds it.
IsSpace(c) == c \in {"\t", "\n", "", "\f", "\r", " ", "", " ", " "}

RECURSIVE TrimLeft(_)
TrimLeft(s) == IF s # <<>> /\ IsSpace(Head(s)) THEN TrimLeft(Tail(s)) ELSE s

RECURSIVE TrimRight(_)
TrimRight(s) == IF s # <<>> /\ IsSpace(s[Len(s)]) THEN TrimRight(SubSeq(s, 1, Len(s) - 1)) ELSE s

TrimSpace(s) == TrimRight(TrimLeft(s))

\* strings.Split(s, sep) for a one-character sep: the pieces around every sep,
\* empty pieces included; an empty s gives the one piece "".
RECURSIVE SplitFrom(_, _, _)
SplitFrom(s, sep, cur) ==
    IF s = <<>> THEN <<cur>>
    ELSE IF Head(s) = sep THEN <<cur>> \o SplitFrom(Tail(s), sep, <<>>)
    ELSE SplitFrom(Tail(s), sep, Append(cur, Head(s)))

Split(s, sep) == SplitFrom(s, sep, <<>>)

\* strings.FieldsFunc with quoteSpaceSplit's closure: the closure is called on
\* every character in order, flips quoted on a double quote, and reports a
\* separator for an unquoted space; empty fields are dropped.
RECURSIVE FieldsQuoted(_, _, _)
FieldsQuoted(s, quoted, cur) ==
    IF s = <<>> THEN (IF cur = <<>> THEN <<>> ELSE <<cur>>)
    ELSE LET q == IF Head(s) = "\"" THEN ~quoted ELSE quoted
         IN IF ~q /\ Head(s) = " "
            THEN (IF cur = <<>> THEN <<>> ELSE <<cur>>) \o FieldsQuoted(Tail(s), q, <<>>)
            ELSE FieldsQuoted(Tail(s), q, Append(cur, Head(s)))

\* quoteSpaceSplit that never splits
quoteSpaceSplit_NoSplit(s) == IF s = <<>> THEN <<>> ELSE <<s>>

quoteSpaceSplit(s) == FieldsQuoted(s, FALSE, <<>>)

(***************************************************************************)
(* Trace events.                                                           *)
(***************************************************************************)
\* runRpmOstree entered with noun and args
CallEv(noun, a) == [kind |-> "call", argv |-> <<noun>> \o a, ok |-> TRUE, out |-> <<>>]

\* exec.Command(command, a...) run on the host, with its exit status and output
ExecEv(command, a, ok, o) == [kind |-> "exec", argv |-> <<command>> \o a, ok |-> ok, out |-> o]

\* imageInspect(imgURL) entered (a library call, no child process)
InspectEv(url, ok, o) == [kind |-> "imageInspect", argv |-> <<url>>, ok |-> ok, out |-> o]

NoOutput == <<>>

(***************************************************************************)
(* Command executor.                                                       *)
(***************************************************************************)
\* runGetOut: the command runs; it fails with a wrapped error and no output,
\* or succeeds with the host's output.
runGetOut(command, a, hostOut) ==
    { [ev |-> <<ExecEv(command, a, TRUE, hostOut)>>, out |-> hostOut, err |-> nil],
      [ev |-> <<ExecEv(command, a, FALSE, NoOutput)>>, out |-> NoOutput, err |-> errRunning(command, a)] }

\* The argument vector runRpmOstree hands to runGetOut.
RpmOstreeArgv(noun, a) == a

\* More than this many args and runRpmOstree refuses to run anything.
RpmOstreeTooManyArgs(a) == Len(a) > 2

runRpmOstree(noun, a, hostOut) ==
    IF RpmOstreeTooManyArgs(a)
    THEN { [ev |-> <<CallEv(noun, a)>>, out |-> NoOutput, err |-> errMalformed] }
    ELSE { [ev |-> <<CallEv(noun, a)>> \o r.ev, out |-> r.out, err |-> r.err] :
             r \in runGetOut(realRpmOstreeCmd, RpmOstreeArgv(noun, a), hostOut) }

\* RpmOstreeClient.RunRpmOstree: the client built by NewNodeUpdaterClient
\* holds runRpmOstree as its commander.
RunRpmOstree(noun, a, hostOut) == runRpmOstree(noun, a, hostOut)

(***************************************************************************)
(* Deployment state reader.                                                *)
(***************************************************************************)
NoDeployment == [ID |-> "", Version |-> <<>>, Booted |-> FALSE, CustomOrigin |-> <<>>]

\* FirstBooted scanning from the end of the list
RECURSIVE FirstBooted_Last(_)
FirstBooted_Last(ds) ==
    IF ds = <<>> THEN [d |-> NoDeployment, err |-> errNotBooted]
    ELSE IF ds[Len(ds)].Booted THEN [d |-> ds[Len(ds)], err |-> nil]
    ELSE FirstBooted_Last(SubSeq(ds, 1, Len(ds) - 1))

RECURSIVE FirstBooted(_)
FirstBooted(ds) ==
    IF ds = <<>> THEN [d |-> NoDeployment, err |-> errNotBooted]
    ELSE IF Head(ds).Booted THEN [d |-> Head(ds), err |-> nil]
    ELSE FirstBooted(Tail(ds))

\* GetBootedDeployment on the result r of RunRpmOstree("status", "--json")
BootedOf(r) ==
    IF r.err # nil THEN [d |-> NoDeployment, err |-> r.err]
    ELSE IF ~r.out.parses THEN [d |-> NoDeployment, err |-> errParseStatus]
    ELSE FirstBooted(r.out.Deployments)

GetBootedDeployment(status) ==
    { [ev |-> r.ev, d |-> BootedOf(r).d, err |-> BootedOf(r).err] :
        r \in RunRpmOstree(sStatus, <<sJson>>, status) }

\* OSImageURLOf handing back an origin that lacks the pivot:// prefix
OSImageURLOf_WholeOrigin(d) ==
    IF Len(d.CustomOrigin) > 0
    THEN (IF HasPrefix(d.CustomOrigin[1], sPivot)
          THEN SubSeq(d.CustomOrigin[1], Len(sPivot) + 1, Len(d.CustomOrigin[1]))
          ELSE d.CustomOrigin[1])
    ELSE <<>>

\* OSImageURLOf cutting one character too few
OSImageURLOf_KeepSlash(d) ==
    IF Len(d.CustomOrigin) > 0 /\ HasPrefix(d.CustomOrigin[1], sPivot)
    THEN SubSeq(d.CustomOrigin[1], Len(sPivot), Len(d.CustomOrigin[1]))
    ELSE <<>>

\* The image URL GetBootedOSImageURL derives from a booted deployment.
OSImageURLOf(d) ==
    IF Len(d.CustomOrigin) > 0 /\ HasPrefix(d.CustomOrigin[1], sPivot)
    THEN SubSeq(d.CustomOrigin[1], Len(sPivot) + 1, Len(d.CustomOrigin[1]))
    ELSE <<>>

(***************************************************************************)
(* Inputs.                                                                 *)
(***************************************************************************)
ImgURLs == { <<"q">>, <<"q", "/", "i">> }

ContentDirs == { <<"/", "m">> }

Csum == <<"c", "9">>

Dep(id, ver, booted, origin) == [ID |-> id, Version |-> ver, Booted |-> booted, CustomOrigin |-> origin]

Status(ds) == [parses |-> TRUE, Deployments |-> ds]

Garbage == [parses |-> FALSE, Deployments |-> <<>>]

RebaseStatuses ==
    { Garbage,
      Status(<<>>),
      Status(<<Dep("d1", <<"4">>, FALSE, <<>>)>>),
      Status(<<Dep("d1", <<"4">>, TRUE, <<>>)>>),
      Status(<<Dep("d1", <<"4">>, FALSE, <<>>), Dep("d2", <<"5">>, TRUE, <<sPivot \o <<"q">>, sManagedBy>>)>>),
      Status(<<Dep("d1", <<"4">>, TRUE, <<<<"m", "a", "n">>>>)>>) }

\* imageInspect's results: an error, or the two labels (an absent label reads "").
ImageInspectResults ==
    { [err |-> errImageInspect, commit |-> <<>>, version |-> <<>>],
      [err |-> nil, commit |-> Csum, version |-> <<"4">>],
      [err |-> nil, commit |-> <<>>, version |-> <<>>] }

\* podman inspect's output: unparseable, or a parsed array of inspections.
PodmanInspectOutputs ==
    { [parses |-> FALSE, images |-> <<>>],
      [parses |-> TRUE, images |-> <<>>],
      [parses |-> TRUE, images |-> <<[commit |-> <<"c", "7">>, version |-> <<>>]>>],
      [parses |-> TRUE, images |-> <<[commit |-> <<>>, version |-> <<>>]>>] }

RefsOutputs ==
    { <<>>, <<"\n">>, <<"r", "\n">>, <<" ", "r">>, <<"r", "\n", "s", "\n">>, <<"r", "\n", "\n", "s">> }

\* what a successful rev-parse prints: the commit checksum and a line end,
\* white space around a checksum, or nothing but white space (the code takes
\* whatever is printed)
RevParseOutputs == { <<"c", "5", "\n">>, <<"\f", "c", "6">>, <<"\n">> }

(***************************************************************************)
(* Rebase.                                                                 *)
(***************************************************************************)
repo == osImageContentDir \o sSrvRepo

\* customURL := fmt.Sprintf("pivot://%s", imgURL)
CustomOriginURL(url) == sPivot \o url

\* args of the rebase invocation, args[0] (the noun) left out
RebaseArgs(rp, csum, url) ==
    << sExperimental, rp \o sColon \o csum, sCustomOriginUrl, CustomOriginURL(url), sCustomOriginDescription, sManagedBy >>

\* a returned *RpmOstreeDeployment: nil, or a pointer to a deployment
NilDeployment == [isNil |-> TRUE, d |-> NoDeployment]

ReaderInit == deployment = NilDeployment

ExecInit == argNoun = <<>>

\* the kernel command line file: unreadable, or its content
NoFile == [ok |-> FALSE, content |-> <<>>]

StubInit == stubOp = "none" /\ stubCalls = 0 /\ cmdLine = NoFile

\* the plugin package loaded, nothing registered, ExecPlugins not called
PluginInit ==
    /\ plugins = <<>>
    /\ stop = "none"
    /\ callerPc = "init"
    /\ loopIdx = 0
    /\ p = 0
    /\ perrs = <<>>
    /\ wg = 0
    /\ taskPc = <<>>
    /\ taskPlugin = <<>>
    /\ reporterPc = "none"
    /\ printed = 0
    /\ reported = <<>>

\* systemdInhibit not called
InhibitInit ==
    /\ inhibitPc = "idle"
    /\ child = "none"
    /\ cmdProcess = "nil"
    /\ cmdProcessState = "nil"
    /\ sigs = <<>>
    /\ watcherPc = "none"
    /\ delivered = 0
    /\ doneRuns = <<>>

\* no ClusterOperator on the API server
NoClusterOperator == [exists |-> FALSE, Conditions |-> <<>>, Versions |-> "none", Raw |-> "none", RelatedObjects |-> FALSE]

\* the operator has reported nothing
StatusInit ==
    /\ clusterOperator = NoClusterOperator
    /\ vStore = "v2"
    /\ inClusterBringup = FALSE
    /\ syncs = <<>>

OtherInit == ReaderInit /\ ExecInit /\ StubInit /\ PluginInit /\ InhibitInit /\ StatusInit

Init ==
    /\ pc = "idle"
    /\ trace = <<>>
    /\ hostStatus \in RebaseStatuses
    /\ authFile \in BOOLEAN
    /\ imgURL = <<>>
    /\ osImageContentDir = <<>>
    /\ ostreeCsum = <<>>
    /\ deferRmi = FALSE
    /\ pullAttempts = 0
    /\ refs = <<>>
    /\ changed = FALSE
    /\ err = nil
    /\ args = <<>>
    /\ tokIdx = 1
    /\ kargs = <<>>
    /\ hostKargs = <<>>
    /\ hostKargs0 = <<>>
    /\ out = <<>>
    /\ osImageURL = <<>>
    /\ version = <<>>
    /\ OtherInit

\* A return statement: the deferred rmi, when registered, runs before the
\* caller gets the results.
AfterReturn == IF deferRmi THEN "deferred" ELSE "done"

RebaseCall ==
    /\ pc = "idle"
    /\ \E url \in ImgURLs, dir \in ContentDirs :
         /\ imgURL' = url
         /\ osImageContentDir' = dir
    /\ pc' = "GetBootedDeployment"
    /\ UNCHANGED <<trace, hostStatus, authFile, ostreeCsum, deferRmi, pullAttempts, refs, changed, err, kargVars, originVars, otherVars>>

\* AfterGetBooted going on whatever the read returned
AfterGetBooted_Proceed(e) == "imageInspect"

\* if err != nil { return }: where Rebase goes with the error e of the read
AfterGetBooted(e) == IF e # nil THEN "done" ELSE "imageInspect"

\* defaultDeployment, err := r.GetBootedDeployment(); if err != nil { return }
RebaseGetBooted ==
    /\ pc = "GetBootedDeployment"
    /\ \E r \in GetBootedDeployment(hostStatus) :
         /\ trace' = trace \o r.ev
         /\ err' = r.err
         /\ pc' = AfterGetBooted(r.err)
    /\ UNCHANGED <<hostStatus, authFile, rebaseVars, kargVars, originVars, otherVars>>

\* AfterInspect with the commit label ignored
AfterInspect_AlwaysRepo(csum) == "ostreeRefs"

\* After both inspections: the defer is registered, and the commit label,
\* when there is one, decides the commit.
AfterInspect(csum) == IF csum # <<>> THEN "rebase" ELSE "ostreeRefs"

RebaseImageInspect ==
    /\ pc = "imageInspect"
    /\ \E res \in ImageInspectResults :
         /\ trace' = Append(trace, InspectEv(imgURL, res.err = nil, res.commit))
         /\ IF res.err # nil
            THEN /\ pc' = "podmanPull"
                 /\ err' = res.err
                 /\ UNCHANGED <<ostreeCsum, deferRmi>>
            ELSE /\ ostreeCsum' = res.commit
                 /\ deferRmi' = TRUE
                 /\ err' = nil
                 /\ pc' = AfterInspect(res.commit)
    /\ UNCHANGED <<hostStatus, authFile, imgURL, osImageContentDir, pullAttempts, refs, changed, kargVars, originVars, otherVars>>

\* RunExt allowing one attempt beyond its budget
RunExtGivesUp_OneMore(attempts, retries) == attempts > retries

\* pivotutils.RunExt gives up once it has made retries attempts
RunExtGivesUp(attempts, retries) == attempts >= retries

PullArgs == <<sPull, sDashQ>> \o (IF authFile THEN <<sAuthfile, kubeletAuthFile>> ELSE <<>>) \o <<imgURL>>

\* One attempt of pivotutils.RunExt(numRetriesNetCommands, "podman", args...)
RebasePodmanPull ==
    /\ pc = "podmanPull"
    /\ \E ok \in BOOLEAN :
         /\ trace' = Append(trace, ExecEv(sPodman, PullArgs, ok, NoOutput))
         /\ pullAttempts' = pullAttempts + 1
         /\ IF ok
            THEN pc' = "podmanInspect" /\ err' = nil
            ELSE IF RunExtGivesUp(pullAttempts + 1, numRetriesNetCommands)
                 THEN pc' = AfterReturn /\ err' = errPull
                 ELSE pc' = "podmanPull" /\ UNCHANGED err
    /\ UNCHANGED <<hostStatus, authFile, imgURL, osImageContentDir, ostreeCsum, deferRmi, refs, changed, kargVars, originVars, otherVars>>

\* The rest of podmanInspect, and Rebase up to the choice of the commit.
RebasePodmanInspect ==
    /\ pc = "podmanInspect"
    /\ \E o \in PodmanInspectOutputs : \E r \in runGetOut(sPodman, <<sInspect, sTypeImage, imgURL>>, o) :
         /\ trace' = trace \o r.ev
         /\ IF r.err # nil
            THEN pc' = AfterReturn /\ err' = r.err /\ UNCHANGED <<ostreeCsum, deferRmi>>
            ELSE IF ~r.out.parses
            THEN pc' = AfterReturn /\ err' = errUnmarshalInspect /\ UNCHANGED <<ostreeCsum, deferRmi>>
            ELSE IF r.out.images = <<>>
            THEN pc' = "panic" /\ err' = nil /\ UNCHANGED <<ostreeCsum, deferRmi>>
            ELSE /\ ostreeCsum' = r.out.images[1].commit
                 /\ deferRmi' = TRUE
                 /\ err' = nil
                 /\ pc' = AfterInspect(r.out.images[1].commit)
    /\ UNCHANGED <<hostStatus, authFile, imgURL, osImageContentDir, pullAttempts, refs, changed, kargVars, originVars, otherVars>>

\* RefsOf without the TrimSpace
RefsOf_NoTrim(refText) == Split(refText, "\n")

\* refs := strings.Split(strings.TrimSpace(string(refText)), "\n")
RefsOf(refText) == Split(TrimSpace(refText), "\n")

RebaseOstreeRefs ==
    /\ pc = "ostreeRefs"
    /\ \E o \in RefsOutputs : \E r \in runGetOut(sOstree, <<sRefs, sRepoFlag, repo>>, o) :
         /\ trace' = trace \o r.ev
         /\ IF r.err # nil
            THEN pc' = AfterReturn /\ err' = r.err /\ UNCHANGED refs
            ELSE /\ refs' = RefsOf(r.out)
                 /\ IF Len(RefsOf(r.out)) = 1
                    THEN pc' = "revParse" /\ err' = nil
                    ELSE IF Len(RefsOf(r.out)) > 1
                    THEN pc' = AfterReturn /\ err' = errMultipleRefs
                    ELSE pc' = AfterReturn /\ err' = errNoRefs
    /\ UNCHANGED <<hostStatus, authFile, imgURL, osImageContentDir, ostreeCsum, deferRmi, pullAttempts, changed, kargVars, originVars, otherVars>>

RebaseRevParse ==
    /\ pc = "revParse"
    /\ \E o \in RevParseOutputs : \E r \in runGetOut(sOstree, <<sRevParse, sRepoFlag, repo, refs[1]>>, o) :
         /\ trace' = trace \o r.ev
         /\ err' = r.err
         /\ IF r.err # nil
            THEN pc' = AfterReturn /\ UNCHANGED ostreeCsum
            ELSE pc' = "rebase" /\ ostreeCsum' = TrimSpace(r.out)
    /\ UNCHANGED <<hostStatus, authFile, imgURL, osImageContentDir, deferRmi, pullAttempts, refs, changed, kargVars, originVars, otherVars>>

\* _, err = runRpmOstree(args[0], args[1:]...); changed = true; return
RebaseRebase ==
    /\ pc = "rebase"
    /\ \E r \in runRpmOstree(sRebase, RebaseArgs(repo, ostreeCsum, imgURL), NoOutput) :
         /\ trace' = trace \o r.ev
         /\ err' = r.err
    /\ changed' = TRUE
    /\ pc' = AfterReturn
    /\ UNCHANGED <<hostStatus, authFile, imgURL, osImageContentDir, ostreeCsum, deferRmi, pullAttempts, refs, kargVars, originVars, otherVars>>

\* defer exec.Command("podman", "rmi", imgURL).Run(): its error is dropped
RebaseDeferred ==
    /\ pc = "deferred"
    /\ \E ok \in BOOLEAN : trace' = Append(trace, ExecEv(sPodman, <<sRmi, imgURL>>, ok, NoOutput))
    /\ pc' = "done"
    /\ UNCHANGED <<hostStatus, authFile, rebaseVars, err, kargVars, originVars, otherVars>>

Next ==
    \/ RebaseCall
    \/ RebaseGetBooted
    \/ RebaseImageInspect
    \/ RebasePodmanPull
    \/ RebasePodmanInspect
    \/ RebaseOstreeRefs
    \/ RebaseRevParse
    \/ RebaseRebase
    \/ RebaseDeferred

Spec == Init /\ [][Next]_vars

(***************************************************************************)
(* Kernel argument reconciler.                                             *)
(***************************************************************************)
kargRemove == 0

kargAdd == 1

MaxArgs == 2

KargNames == { <<"a">>, <<"a", " ", "b">>, <<"\"", "a", " ", "b", "\"">> }

KernelArguments == [Operation : {kargRemove, kargAdd}, Name : KargNames]

KargRequests == UNION { [1..n -> KernelArguments] : n \in 0..MaxArgs }

\* what the host prints for its kernel arguments
KargsTexts == { <<>>, <<"a", "b", "\n">>, <<"b", " ", "\"", "a", " ", "b", "\"">> }

\* what the host prints when it has changed its kernel arguments
SetOutputs == { <<>>, <<"o", "k", "\n">> }

\* the two loops of SetKernelArgs, flattened: every token sv of every request
\* v, in order, with v's operation
RECURSIVE ExpandArgs(_)
ExpandArgs(as) ==
    IF as = <<>> THEN <<>>
    ELSE LET toks == quoteSpaceSplit(Head(as).Name)
         IN [k \in 1..Len(toks) |-> [Operation |-> Head(as).Operation, sv |-> toks[k]]] \o ExpandArgs(Tail(as))

\* GetKernelArgs on the result r of RunRpmOstree("kargs")
GetKernelArgs(host) ==
    { [ev |-> r.ev, kargs |-> IF r.err = nil THEN quoteSpaceSplit(r.out) ELSE <<>>, err |-> r.err] :
        r \in RunRpmOstree(sKargs, <<>>, host) }

\* InUse without the presence check
InUse_Always(checkable, arg) == TRUE

InUse(checkable, arg) == \E k \in DOMAIN checkable : HasPrefix(checkable[k], arg)

isKernelArgInUse(arg, host) ==
    { [ev |-> g.ev, inUse |-> g.err = nil /\ InUse(g.kargs, arg), err |-> g.err] : g \in GetKernelArgs(host) }

AppendFlag(sv) == sAppend \o sv

DeleteFlag(sv) == sDelete \o sv

InitKargs ==
    /\ pc = "idle"
    /\ trace = <<>>
    /\ hostStatus = Garbage
    /\ authFile = FALSE
    /\ imgURL = <<>>
    /\ osImageContentDir = <<>>
    /\ ostreeCsum = <<>>
    /\ deferRmi = FALSE
    /\ pullAttempts = 0
    /\ refs = <<>>
    /\ changed = FALSE
    /\ err = nil
    /\ args = <<>>
    /\ tokIdx = 1
    /\ kargs = <<>>
    /\ hostKargs \in KargsTexts
    /\ hostKargs0 = hostKargs
    /\ out = <<>>
    /\ osImageURL = <<>>
    /\ version = <<>>
    /\ OtherInit

SetKernelArgsCall ==
    /\ pc = "idle"
    /\ args' \in KargRequests
    /\ tokIdx' = 1
    /\ kargs' = <<>>
    /\ pc' = "kargLoop"
    /\ UNCHANGED <<trace, hostStatus, authFile, rebaseVars, err, hostKargs, hostKargs0, out, originVars, otherVars>>

\* one pass of the inner loop body, on an Add token
SetKernelArgsAdd ==
    /\ pc = "kargLoop"
    /\ tokIdx <= Len(ExpandArgs(args))
    /\ ExpandArgs(args)[tokIdx].Operation = kargAdd
    /\ kargs' = Append(kargs, AppendFlag(ExpandArgs(args)[tokIdx].sv))
    /\ tokIdx' = tokIdx + 1
    /\ UNCHANGED <<pc, trace, hostStatus, authFile, rebaseVars, err, args, hostKargs, hostKargs0, out, originVars, otherVars>>

\* one pass of the inner loop body, on a Remove token
SetKernelArgsRemove ==
    /\ pc = "kargLoop"
    /\ tokIdx <= Len(ExpandArgs(args))
    /\ ExpandArgs(args)[tokIdx].Operation = kargRemove
    /\ \E r \in isKernelArgInUse(ExpandArgs(args)[tokIdx].sv, hostKargs) :
         /\ trace' = trace \o r.ev
         /\ err' = r.err
         /\ IF r.err # nil
            THEN pc' = "done" /\ out' = <<>> /\ UNCHANGED <<kargs, tokIdx>>
            ELSE /\ kargs' = IF r.inUse THEN Append(kargs, DeleteFlag(ExpandArgs(args)[tokIdx].sv)) ELSE kargs
                 /\ tokIdx' = tokIdx + 1
                 /\ UNCHANGED <<pc, out>>
    /\ UNCHANGED <<hostStatus, authFile, rebaseVars, args, hostKargs, hostKargs0, originVars, otherVars>>

\* after the loops: nothing queued, or the one combined invocation; a set
\* command that the host runs successfully leaves the host with some new
\* kernel arguments
SetKernelArgsRun ==
    /\ pc = "kargLoop"
    /\ tokIdx > Len(ExpandArgs(args))
    /\ IF Len(kargs) = 0
       THEN /\ out' = <<>>
            /\ err' = nil
            /\ UNCHANGED <<trace, hostKargs>>
       ELSE \E o \in SetOutputs, k \in KargsTexts : \E r \in RunRpmOstree(sKargs, kargs, o) :
            /\ trace' = trace \o r.ev
            /\ out' = r.out
            /\ err' = r.err
            /\ hostKargs' = IF r.err = nil THEN k ELSE hostKargs
    /\ pc' = "done"
    /\ UNCHANGED <<hostStatus, authFile, rebaseVars, args, tokIdx, kargs, hostKargs0, originVars, otherVars>>

NextKargs ==
    \/ SetKernelArgsCall
    \/ SetKernelArgsAdd
    \/ SetKernelArgsRemove
    \/ SetKernelArgsRun

SpecKargs == InitKargs /\ [][NextKargs]_vars

(***************************************************************************)
(* GetBootedOSImageURL.                                                    *)
(***************************************************************************)
MaxRefLen == 3

RefChars == { "p", "/", ":" }

ImageRefs == UNION { [1..n -> RefChars] : n \in 0..MaxRefLen }

OriginStatuses ==
    { Status(<<Dep("d1", <<"4">>, b, <<CustomOriginURL(R), sManagedBy>>)>>) : R \in ImageRefs, b \in BOOLEAN }
    \cup { Status(<<Dep("d1", <<"4">>, TRUE, <<R>>)>>) : R \in ImageRefs }
    \cup { Status(<<Dep("d1", <<"4">>, FALSE, <<>>), Dep("d2", <<"5">>, TRUE, <<CustomOriginURL(sPivot \o R), sManagedBy>>)>>) : R \in ImageRefs }
    \cup RebaseStatuses
    \cup { Status(<<Dep("d1", <<"4">>, TRUE, <<>>), Dep("d2", <<"5">>, TRUE, <<CustomOriginURL(<<"p">>)>>)>>) }
    \cup { Status(<<Dep("d1", <<"4">>, FALSE, <<>>), Dep("d2", <<"5">>, TRUE, <<>>), Dep("d3", <<"6">>, TRUE, <<>>)>>) }

InitOrigin ==
    /\ pc = "idle"
    /\ trace = <<>>
    /\ hostStatus \in OriginStatuses
    /\ authFile = FALSE
    /\ imgURL = <<>>
    /\ osImageContentDir = <<>>
    /\ ostreeCsum = <<>>
    /\ deferRmi = FALSE
    /\ pullAttempts = 0
    /\ refs = <<>>
    /\ changed = FALSE
    /\ err = nil
    /\ args = <<>>
    /\ tokIdx = 1
    /\ kargs = <<>>
    /\ hostKargs = <<>>
    /\ hostKargs0 = <<>>
    /\ out = <<>>
    /\ osImageURL = <<>>
    /\ version = <<>>
    /\ OtherInit

GetBootedOSImageURL ==
    /\ pc = "idle"
    /\ \E r \in GetBootedDeployment(hostStatus) :
         /\ trace' = trace \o r.ev
         /\ err' = r.err
         /\ osImageURL' = IF r.err # nil THEN <<>> ELSE OSImageURLOf(r.d)
         /\ version' = IF r.err # nil THEN <<>> ELSE r.d.Version
    /\ pc' = "done"
    /\ UNCHANGED <<hostStatus, authFile, rebaseVars, kargVars, otherVars>>

\* r.GetBootedDeployment() called on its own; the caller holds the returned
\* pointer and error.
GetBootedDeploymentCall ==
    /\ pc = "idle"
    /\ \E r \in GetBootedDeployment(hostStatus) :
         /\ trace' = trace \o r.ev
         /\ err' = r.err
         /\ deployment' = [isNil |-> r.err # nil, d |-> r.d]
    /\ pc' = "booted"
    /\ UNCHANGED <<hostStatus, authFile, rebaseVars, kargVars, originVars, execVars, stubVars, pluginVars, inhibitVars, statusVars>>

NextOrigin == GetBootedOSImageURL \/ GetBootedDeploymentCall

SpecOrigin == InitOrigin /\ [][NextOrigin]_vars

(***************************************************************************)
(* notCoreOSClient: the client of hosts that are no CoreOS variant.  Each  *)
(* method is one step; the caller holds what the last call returned.       *)
(***************************************************************************)
MaxStubCalls == 3

ErrNotCoreosVariant == Err("operating system is not a CoreOS Variant")

errReadFile == Err("open: no such file or directory")

\* a client that has not been called; the host is of no concern to it
ClientIdle ==
    /\ pc = "idle"
    /\ trace = <<>>
    /\ hostStatus = Status(<<>>)
    /\ authFile = FALSE
    /\ imgURL = <<>>
    /\ osImageContentDir = <<>>
    /\ ostreeCsum = <<>>
    /\ deferRmi = FALSE
    /\ pullAttempts = 0
    /\ refs = <<>>
    /\ changed = FALSE
    /\ err = nil
    /\ args = <<>>
    /\ tokIdx = 1
    /\ kargs = <<>>
    /\ hostKargs = <<>>
    /\ hostKargs0 = <<>>
    /\ out = <<>>
    /\ osImageURL = <<>>
    /\ version = <<>>

CmdLines == { NoFile } \cup { [ok |-> TRUE, content |-> c] : c \in { <<>>, <<"a">>, <<"a", " ", "b">> } }

StubNouns == { sStatus, sKargs, sRebase }

StubArgs == { <<>>, <<sJson>>, <<sJson, sJson, sJson>> }

StubKargRequests == { <<>>, <<[Operation |-> kargAdd, Name |-> <<"a">>]>> }

InitStub ==
    /\ ClientIdle
    /\ ReaderInit
    /\ ExecInit
    /\ stubOp = "none"
    /\ stubCalls = 0
    /\ cmdLine \in CmdLines
    /\ PluginInit
    /\ InhibitInit
    /\ StatusInit

\* one more call of a method of the stub
StubCalled(name) ==
    /\ stubCalls < MaxStubCalls
    /\ stubCalls' = stubCalls + 1
    /\ stubOp' = name
    /\ UNCHANGED <<pc, trace, hostStatus, authFile, cmdLine, pluginVars, inhibitVars, statusVars>>

noCosGetBootedDeployment ==
    /\ StubCalled("GetBootedDeployment")
    /\ deployment' = [isNil |-> FALSE, d |-> NoDeployment]
    /\ err' = nil
    /\ UNCHANGED <<rebaseVars, kargVars, originVars, execVars>>

\* Rebase of the stub reporting a change
noCosRebaseReturn_Changed == [changed |-> TRUE, err |-> ErrNotCoreosVariant]

noCosRebaseReturn == [changed |-> FALSE, err |-> ErrNotCoreosVariant]

noCosRebase ==
    /\ StubCalled("Rebase")
    /\ \E a \in ImgURLs, b \in ContentDirs :
         /\ imgURL' = a
         /\ osImageContentDir' = b
    /\ changed' = noCosRebaseReturn.changed
    /\ err' = noCosRebaseReturn.err
    /\ UNCHANGED <<ostreeCsum, deferRmi, pullAttempts, refs, kargVars, originVars, readerVars, execVars>>

noCosGetStatus ==
    /\ StubCalled("GetStatus")
    /\ out' = <<>>
    /\ err' = ErrNotCoreosVariant
    /\ UNCHANGED <<rebaseVars, args, tokIdx, kargs, hostKargs, hostKargs0, originVars, readerVars, execVars>>

noCosGetBootedOSImageURL ==
    /\ StubCalled("GetBootedOSImageURL")
    /\ osImageURL' = <<>>
    /\ version' = <<>>
    /\ err' = ErrNotCoreosVariant
    /\ UNCHANGED <<rebaseVars, kargVars, readerVars, execVars>>

\* ioutil.ReadFile(CmdLineFile), then strings.Split(content, " ")
noCosGetKernelArgs ==
    /\ StubCalled("GetKernelArgs")
    /\ kargs' = IF cmdLine.ok THEN Split(cmdLine.content, " ") ELSE <<>>
    /\ err' = IF cmdLine.ok THEN nil ELSE errReadFile
    /\ UNCHANGED <<rebaseVars, args, tokIdx, hostKargs, hostKargs0, out, originVars, readerVars, execVars>>

noCosSetKernelArgs ==
    /\ StubCalled("SetKernelArgs")
    /\ \E a \in StubKargRequests : args' = a
    /\ out' = <<"u", "n", "s", "u", "p", "p", "o", "r", "t", "e", "d">>
    /\ err' = ErrNotCoreosVariant
    /\ UNCHANGED <<rebaseVars, tokIdx, kargs, hostKargs, hostKargs0, originVars, readerVars, execVars>>

noCosRemovePendingDeployment ==
    /\ StubCalled("RemovePendingDeployment")
    /\ err' = ErrNotCoreosVariant
    /\ UNCHANGED <<rebaseVars, kargVars, originVars, readerVars, execVars>>

noCosRunRpmOstree ==
    /\ StubCalled("RunRpmOstree")
    /\ \E n \in StubNouns, a \in StubArgs :
         /\ argNoun' = n
         /\ args' = a
    /\ out' = <<>>
    /\ err' = ErrNotCoreosVariant
    /\ UNCHANGED <<rebaseVars, tokIdx, kargs, hostKargs, hostKargs0, originVars, readerVars>>

NextStub ==
    \/ noCosGetBootedDeployment
    \/ noCosRebase
    \/ noCosGetStatus
    \/ noCosGetBootedOSImageURL
    \/ noCosGetKernelArgs
    \/ noCosSetKernelArgs
    \/ noCosRemovePendingDeployment
    \/ noCosRunRpmOstree

SpecStub == InitStub /\ [][NextStub]_vars

(***************************************************************************)
(* Plugin harness: Register and ExecPlugins, called as TestDummy calls     *)
(* them.  A plugin is its number in the order of registration; every       *)
(* plugin is a Dummy, whose Exec returns plugErrEnd once stop is closed.   *)
(* Task t is the goroutine the t-th iteration of ExecPlugins' loop starts. *)
(* The goroutines read the loop variable p, which the loop goes on         *)
(* assigning: a task calls the Exec of whatever p holds when it gets to    *)
(* run.  perrs is never closed, so the range over it has no exit.          *)
(***************************************************************************)
MaxPlugins == 2

plugErrEnd == Err("plugin dummy: recieved stop signal")

InitPlugins ==
    /\ ClientIdle
    /\ ReaderInit
    /\ ExecInit
    /\ StubInit
    /\ PluginInit
    /\ InhibitInit
    /\ StatusInit

\* the waiter count of wg: the reporting goroutine, while it sleeps in Wait
waiters == IF reporterPc = "asleep" THEN 1 ELSE 0

\* a goroutine has panicked inside the WaitGroup: the process is gone
WaitGroupPanicked == reporterPc = "panicked" \/ \E t \in DOMAIN taskPc : taskPc[t] = "panicked"

\* plug.Register(&d) in a plugin's init function
Register ==
    /\ callerPc = "init"
    /\ Len(plugins) < MaxPlugins
    /\ plugins' = Append(plugins, Len(plugins) + 1)
    /\ UNCHANGED <<stop, callerPc, loopIdx, p, perrs, wg, taskPc, taskPlugin, reporterPc, printed, reported, outsidePlugins>>

\* stopCh := make(chan struct{}); defer close(stopCh); plug.ExecPlugins(stopCh);
\* perrs := make(chan error, len(plugins)); var wg sync.WaitGroup
TestDummyCallsExecPlugins ==
    /\ callerPc = "init"
    /\ stop' = "open"
    /\ perrs' = <<>>
    /\ wg' = 0
    /\ loopIdx' = 1
    /\ callerPc' = "loop"
    /\ UNCHANGED <<plugins, p, taskPc, taskPlugin, reporterPc, printed, reported, outsidePlugins>>

\* one iteration of for _, p := range plugins { go func() {...}() }
ExecPluginsSpawn ==
    /\ callerPc = "loop"
    /\ ~WaitGroupPanicked
    /\ loopIdx <= Len(plugins)
    /\ p' = plugins[loopIdx]
    /\ taskPc' = Append(taskPc, "spawned")
    /\ taskPlugin' = Append(taskPlugin, 0)
    /\ loopIdx' = loopIdx + 1
    /\ UNCHANGED <<plugins, stop, callerPc, perrs, wg, reporterPc, printed, reported, outsidePlugins>>

\* the loop is over: go func() { wg.Wait(); ... }()
ExecPluginsSpawnReporter ==
    /\ callerPc = "loop"
    /\ ~WaitGroupPanicked
    /\ loopIdx > Len(plugins)
    /\ reporterPc' = "wait"
    /\ callerPc' = "return"
    /\ UNCHANGED <<plugins, stop, loopIdx, p, perrs, wg, taskPc, taskPlugin, printed, reported, outsidePlugins>>

\* ExecPlugins returns to TestDummy, which goes to sleep
ExecPluginsReturn ==
    /\ callerPc = "return"
    /\ ~WaitGroupPanicked
    /\ callerPc' = "sleep"
    /\ UNCHANGED <<plugins, stop, loopIdx, p, perrs, wg, taskPc, taskPlugin, reporterPc, printed, reported, outsidePlugins>>

\* TestDummy returns: the deferred close(stopCh) runs
TestDummyReturns ==
    /\ callerPc = "sleep"
    /\ ~WaitGroupPanicked
    /\ stop' = "closed"
    /\ callerPc' = "exited"
    /\ UNCHANGED <<plugins, loopIdx, p, perrs, wg, taskPc, taskPlugin, reporterPc, printed, reported, outsidePlugins>>

\* wg.Add(1), the first statement of the goroutine.  Add panics ("WaitGroup
\* misuse: Add called concurrently with Wait") when it raises the counter from
\* zero while a waiter is still registered, which is the case between the two
\* halves of the Done that brought the counter to zero.
TaskAdd(t) ==
    /\ taskPc[t] = "spawned"
    /\ ~WaitGroupPanicked
    /\ wg' = wg + 1
    /\ taskPc' = [taskPc EXCEPT ![t] = IF waiters # 0 /\ wg' = 1 THEN "panicked" ELSE "added"]
    /\ UNCHANGED <<plugins, stop, callerPc, loopIdx, p, perrs, taskPlugin, reporterPc, printed, reported, outsidePlugins>>

\* p.Exec(stop) is called: the goroutine reads p
TaskExec(t) ==
    /\ taskPc[t] = "added"
    /\ ~WaitGroupPanicked
    /\ taskPlugin' = [taskPlugin EXCEPT ![t] = p]
    /\ taskPc' = [taskPc EXCEPT ![t] = "inExec"]
    /\ UNCHANGED <<plugins, stop, callerPc, loopIdx, p, perrs, wg, reporterPc, printed, reported, outsidePlugins>>

\* Dummy.Exec returning whether or not stop is closed
DummyExecReturns_AtOnce(s) == TRUE

\* <-stop in Dummy.Exec: the receive returns once stop is closed
DummyExecReturns(s) == s = "closed"

\* Dummy.Exec returns plugErrEnd
TaskExecReturns(t) ==
    /\ taskPc[t] = "inExec"
    /\ ~WaitGroupPanicked
    /\ DummyExecReturns(stop)
    /\ taskPc' = [taskPc EXCEPT ![t] = "send"]
    /\ UNCHANGED <<plugins, stop, callerPc, loopIdx, p, perrs, wg, taskPlugin, reporterPc, printed, reported, outsidePlugins>>

\* perrs := make(chan error, len(plugins))
perrsCapacity(registered) == Len(registered)

\* perrs <- the error; the send waits while the buffer of len(plugins) is full
TaskSend(t) ==
    /\ taskPc[t] = "send"
    /\ ~WaitGroupPanicked
    /\ Len(perrs) < perrsCapacity(plugins)
    /\ perrs' = Append(perrs, [task |-> t, plugin |-> taskPlugin[t], err |-> plugErrEnd])
    /\ taskPc' = [taskPc EXCEPT ![t] = "sent"]
    /\ UNCHANGED <<plugins, stop, callerPc, loopIdx, p, wg, taskPlugin, reporterPc, printed, reported, outsidePlugins>>

\* the deferred wg.Done(), that is wg.Add(-1): the counter is lowered; the
\* goroutine ends unless the counter reached zero with a waiter registered
TaskDone(t) ==
    /\ taskPc[t] = "sent"
    /\ ~WaitGroupPanicked
    /\ wg' = wg - 1
    /\ taskPc' = [taskPc EXCEPT ![t] = IF wg' = 0 /\ waiters # 0 THEN "releasing" ELSE "finished"]
    /\ UNCHANGED <<plugins, stop, callerPc, loopIdx, p, perrs, taskPlugin, reporterPc, printed, reported, outsidePlugins>>

\* the second half of that Done: it panics if the state has changed since,
\* else it resets the waiter count and releases the waiter; the goroutine ends
TaskRelease(t) ==
    /\ taskPc[t] = "releasing"
    /\ ~WaitGroupPanicked
    /\ taskPc' = [taskPc EXCEPT ![t] = IF wg # 0 THEN "panicked" ELSE "finished"]
    /\ reporterPc' = IF wg # 0 THEN reporterPc ELSE "woken"
    /\ UNCHANGED <<plugins, stop, callerPc, loopIdx, p, perrs, wg, taskPlugin, printed, reported, outsidePlugins>>

\* wg.Wait() is called: it returns at once when the counter is zero, else it
\* registers as a waiter and sleeps
ReporterWait ==
    /\ reporterPc = "wait"
    /\ ~WaitGroupPanicked
    /\ reporterPc' = IF wg = 0 THEN "print" ELSE "asleep"
    /\ UNCHANGED <<plugins, stop, callerPc, loopIdx, p, perrs, wg, taskPc, taskPlugin, printed, reported, outsidePlugins>>

\* the released waiter runs again: Wait panics ("WaitGroup is reused before
\* previous Wait has returned") when the counter is no longer zero, else returns
ReporterResume ==
    /\ reporterPc = "woken"
    /\ ~WaitGroupPanicked
    /\ reporterPc' = IF wg # 0 THEN "panicked" ELSE "print"
    /\ UNCHANGED <<plugins, stop, callerPc, loopIdx, p, perrs, wg, taskPc, taskPlugin, printed, reported, outsidePlugins>>

\* fmt.Printf("%v", len(perrs))
ReporterPrint ==
    /\ reporterPc = "print"
    /\ ~WaitGroupPanicked
    /\ printed' = Len(perrs)
    /\ reporterPc' = "range"
    /\ UNCHANGED <<plugins, stop, callerPc, loopIdx, p, perrs, wg, taskPc, taskPlugin, reported, outsidePlugins>>

\* for e := range perrs { glog.Error("plugin:", e) }: one receive, one report
ReporterReceive ==
    /\ reporterPc = "range"
    /\ ~WaitGroupPanicked
    /\ perrs # <<>>
    /\ reported' = Append(reported, Head(perrs))
    /\ perrs' = Tail(perrs)
    /\ UNCHANGED <<plugins, stop, callerPc, loopIdx, p, wg, taskPc, taskPlugin, reporterPc, printed, outsidePlugins>>

ExecPluginsStep == ExecPluginsSpawn \/ ExecPluginsSpawnReporter \/ ExecPluginsReturn

NextPlugins ==
    \/ Register
    \/ TestDummyCallsExecPlugins
    \/ ExecPluginsStep
    \/ TestDummyReturns
    \/ \E t \in DOMAIN taskPc : TaskAdd(t)
    \/ \E t \in DOMAIN taskPc : TaskExec(t)
    \/ \E t \in DOMAIN taskPc : TaskExecReturns(t)
    \/ \E t \in DOMAIN taskPc : TaskSend(t)
    \/ \E t \in DOMAIN taskPc : TaskDone(t)
    \/ \E t \in DOMAIN taskPc : TaskRelease(t)
    \/ ReporterWait
    \/ ReporterResume
    \/ ReporterPrint
    \/ ReporterReceive

SpecPlugins == InitPlugins /\ [][NextPlugins]_vars

\* the steps of the goroutine of task t
TaskStep(t) ==
    /\ t \in DOMAIN taskPc
    /\ TaskAdd(t) \/ TaskExec(t) \/ TaskExecReturns(t) \/ TaskSend(t) \/ TaskDone(t) \/ TaskRelease(t)

\* The Go scheduler runs every goroutine that can take a step: each plugin
\* task that stays runnable runs.  Nothing is assumed of the caller or of the
\* reporting goroutine.
SpecPluginsFair ==
    /\ InitPlugins
    /\ [][NextPlugins]_vars
    /\ \A t \in 1..MaxPlugins : WF_vars(TaskStep(t))

(***************************************************************************)
(* systemdInhibit: the inhibitor child, the release function done, and the *)
(* goroutine that watches for signals.  cmd.ProcessState is nil until      *)
(* cmd.Wait returns, and nothing here calls cmd.Wait.  A panic in any      *)
(* goroutine ends the process; the child is a process of its own and       *)
(* outlives it.                                                            *)
(***************************************************************************)
MaxSignals == 2

\* os.Interrupt, syscall.SIGTERM, syscall.SIGUSR1, syscall.SIGUSR2
WatchedSignals == { "SIGINT", "SIGTERM", "SIGUSR1", "SIGUSR2" }

\* cap(sigs)
sigsCap == 1

InitInhibit ==
    /\ ClientIdle
    /\ ReaderInit
    /\ ExecInit
    /\ StubInit
    /\ PluginInit
    /\ InhibitInit
    /\ StatusInit

\* a goroutine has panicked: the process is gone
Crashed == inhibitPc = "panicked" \/ watcherPc = "panicked"

\* systemdInhibit: signal.Notify, cmd.Start (which may fail), the watcher is
\* started, and done and the error of Start are returned
systemdInhibit ==
    /\ inhibitPc = "idle"
    /\ \E started \in BOOLEAN :
         /\ child' = IF started THEN "running" ELSE "none"
         /\ cmdProcess' = IF started THEN "set" ELSE "nil"
    /\ watcherPc' = "check"
    /\ inhibitPc' = "guarded"
    /\ UNCHANGED <<cmdProcessState, sigs, delivered, doneRuns, outsideInhibit>>

\* the host ends the child (/bin/sleep returns, or it is killed from outside)
ChildExits ==
    /\ child = "running"
    /\ child' = "exited"
    /\ UNCHANGED <<inhibitPc, cmdProcess, cmdProcessState, sigs, watcherPc, delivered, doneRuns, outsideInhibit>>

\* a watched signal arrives: signal.Notify's send does not block, the signal
\* is dropped when sigs is full
SignalDelivered ==
    /\ inhibitPc # "idle"
    /\ ~Crashed
    /\ delivered < MaxSignals
    /\ delivered' = delivered + 1
    /\ \E sig \in WatchedSignals :
         sigs' = IF Len(sigs) < sigsCap THEN Append(sigs, sig) ELSE sigs
    /\ UNCHANGED <<inhibitPc, child, cmdProcess, cmdProcessState, watcherPc, doneRuns, outsideInhibit>>

\* done: cmd.ProcessState.Exited() dereferences cmd.ProcessState, so it
\* panics on nil; if the child has not exited, cmd.Process.Kill()
done(ps, proc) ==
    IF ps = "nil" THEN "panic"
    ELSE IF ps = "exited" THEN "released"
    ELSE IF proc = "nil" THEN "panic"
    ELSE "killed"

\* what a run of done leaves of the child
AfterDone(outcome) == IF outcome = "killed" /\ child = "running" THEN "exited" ELSE child

\* the caller invokes the release function it was given
CallerRelease ==
    /\ inhibitPc = "guarded"
    /\ ~Crashed
    /\ LET outcome == done(cmdProcessState, cmdProcess)
       IN /\ doneRuns' = Append(doneRuns, [by |-> "caller", outcome |-> outcome])
          /\ child' = AfterDone(outcome)
          /\ inhibitPc' = IF outcome = "panic" THEN "panicked" ELSE "released"
    /\ UNCHANGED <<cmdProcess, cmdProcessState, sigs, watcherPc, delivered, outsideInhibit>>

\* the head of the watcher's loop: break once the child is known to have exited
WatcherCheck ==
    /\ watcherPc = "check"
    /\ ~Crashed
    /\ watcherPc' = IF cmdProcessState # "nil" /\ cmdProcessState = "exited" THEN "terminated" ELSE "select"
    /\ UNCHANGED <<inhibitPc, child, cmdProcess, cmdProcessState, sigs, delivered, doneRuns, outsideInhibit>>

\* select { case <-sigs: done() }
WatcherSignal ==
    /\ watcherPc = "select"
    /\ ~Crashed
    /\ sigs # <<>>
    /\ sigs' = Tail(sigs)
    /\ LET outcome == done(cmdProcessState, cmdProcess)
       IN /\ doneRuns' = Append(doneRuns, [by |-> Head(sigs), outcome |-> outcome])
          /\ child' = AfterDone(outcome)
          /\ watcherPc' = IF outcome = "panic" THEN "panicked" ELSE "check"
    /\ UNCHANGED <<inhibitPc, cmdProcess, cmdProcessState, delivered, outsideInhibit>>

NextInhibit ==
    \/ systemdInhibit
    \/ ChildExits
    \/ SignalDelivered
    \/ CallerRelease
    \/ WatcherCheck
    \/ WatcherSignal

SpecInhibit == InitInhibit /\ [][NextInhibit]_vars

(***************************************************************************)
(* runRpmOstree on its own: a noun and an argument list, handed to the     *)
(* commander as RunRpmOstree and RemovePendingDeployment hand them.        *)
(***************************************************************************)
MaxExecArgs == 3

ExecNouns == { sStatus, sKargs, sCleanup, sRebase }

ExecWords == { sJson, sDashP }

ExecArgLists == UNION { [1..n -> ExecWords] : n \in 0..MaxExecArgs }

InitExec ==
    /\ pc = "idle"
    /\ trace = <<>>
    /\ hostStatus = Status(<<>>)
    /\ authFile = FALSE
    /\ imgURL = <<>>
    /\ osImageContentDir = <<>>
    /\ ostreeCsum = <<>>
    /\ deferRmi = FALSE
    /\ pullAttempts = 0
    /\ refs = <<>>
    /\ changed = FALSE
    /\ err = nil
    /\ args \in ExecArgLists
    /\ tokIdx = 1
    /\ kargs = <<>>
    /\ hostKargs = <<>>
    /\ hostKargs0 = <<>>
    /\ out = <<>>
    /\ osImageURL = <<>>
    /\ version = <<>>
    /\ ReaderInit
    /\ argNoun \in ExecNouns
    /\ StubInit
    /\ PluginInit
    /\ InhibitInit
    /\ StatusInit

\* r.RunRpmOstree(noun, args...)
RunRpmOstreeCall ==
    /\ pc = "idle"
    /\ \E o \in SetOutputs :
         \E r \in RunRpmOstree(argNoun, args, o) :
            /\ trace' = trace \o r.ev
            /\ out' = r.out
            /\ err' = r.err
    /\ pc' = "done"
    /\ UNCHANGED <<hostStatus, authFile, rebaseVars, args, tokIdx, kargs, hostKargs, hostKargs0, originVars, otherVars>>

NextExec == RunRpmOstreeCall

SpecExec == InitExec /\ [][NextExec]_vars

(***************************************************************************)
(* Operator status: the ClusterOperator object the operator reports to.    *)
(* clusterOperator is the object on the API server; every sync fetches it, *)
(* changes its own copy and hands the copy to UpdateStatus.  A call of the *)
(* API succeeds or fails.  syncs records, for every sync run, what it      *)
(* fetched, the copies it handed to UpdateStatus, and what it returned.    *)
(* Times are relative to the running sync: "now" is metav1.Now() in it,    *)
(* and every time fetched is "old".                                        *)
(***************************************************************************)
MaxSyncs == 2

ConditionTrue == "True"

ConditionFalse == "False"

OperatorAvailable == "Available"

OperatorProgressing == "Progressing"

OperatorFailing == "Failing"

errAPI == Err("api call failed")

errPanic == Err("panic: nil pointer dereference")

\* the errors a sync pass hands to syncFailingStatus
SyncErrors == { nil, Err("sync failed") }

Condition(t, st, m, r) == [Type |-> t, Status |-> st, Message |-> m, Reason |-> r, LastTransitionTime |-> "old"]

\* cov1helpers.FindStatusCondition: the position of the first condition of
\* type t, 0 for the nil it returns when there is none
FindStatusCondition(conds, t) ==
    IF \E i \in DOMAIN conds : conds[i].Type = t
    THEN CHOOSE i \in DOMAIN conds : conds[i].Type = t /\ \A j \in 1..(i - 1) : conds[j].Type # t
    ELSE 0

IsStatusConditionTrue(conds, t) ==
    FindStatusCondition(conds, t) # 0 /\ conds[FindStatusCondition(conds, t)].Status = ConditionTrue

\* cov1helpers.SetStatusCondition: a new condition is appended with the time
\* now; an existing one gets the new status (and the time now if the status
\* differs), the new reason and the new message
SetStatusCondition(conds, new) ==
    LET i == FindStatusCondition(conds, new.Type)
    IN IF i = 0
       THEN Append(conds, [new EXCEPT !.LastTransitionTime = "now"])
       ELSE [conds EXCEPT ![i] =
                [Type |-> conds[i].Type,
                 Status |-> new.Status,
                 Message |-> new.Message,
                 Reason |-> new.Reason,
                 LastTransitionTime |-> IF conds[i].Status # new.Status THEN "now" ELSE conds[i].LastTransitionTime]]

\* what optr.allMachineConfigPoolStatus and json.Marshal give
\* setMachineConfigPoolStatuses: an error, or the raw extension
PoolResults == { [ok |-> FALSE, raw |-> "none"], [ok |-> TRUE, raw |-> "pools"] }

setMachineConfigPoolStatuses(c, pool) == IF pool.ok THEN [c EXCEPT !.Raw = pool.raw] ELSE c

\* a fetched object: its times are in the past
Fetched(c) ==
    [c EXCEPT !.Conditions = [i \in DOMAIN c.Conditions |-> [c.Conditions[i] EXCEPT !.LastTransitionTime = "old"]]]

\* ClusterOperators().UpdateStatus(c): the server stores c, or the call fails
UpdateStatus(server, c, prior) ==
    { [server |-> c, submitted |-> Append(prior, c), ret |-> nil],
      [server |-> server, submitted |-> Append(prior, c), ret |-> errAPI] }

\* the object ClusterOperators().Create stores: a name and no status
Created == [exists |-> TRUE, Conditions |-> <<>>, Versions |-> "none", Raw |-> "none", RelatedObjects |-> FALSE]

\* the copy initializeClusterOperator hands to UpdateStatus
Initialized(store) ==
    [exists |-> TRUE,
     Conditions |-> SetStatusCondition(SetStatusCondition(SetStatusCondition(<<>>,
                        Condition(OperatorAvailable, ConditionFalse, <<>>, "")),
                        Condition(OperatorProgressing, ConditionFalse, <<>>, "")),
                        Condition(OperatorFailing, ConditionFalse, <<>>, "")),
     Versions |-> store,
     Raw |-> "none",
     RelatedObjects |-> TRUE]

\* initializeClusterOperator: Create, then UpdateStatus of the initialized copy
initializeClusterOperator(store) ==
    { [isNil |-> TRUE, co |-> NoClusterOperator, err |-> errAPI, server |-> NoClusterOperator, submitted |-> <<>>] }
    \cup { [isNil |-> FALSE, co |-> IF u.ret = nil THEN Initialized(store) ELSE NoClusterOperator, err |-> u.ret,
            server |-> u.server, submitted |-> u.submitted] : u \in UpdateStatus(Created, Initialized(store), <<>>) }

\* fetchClusterOperator: Get answers no-match (nil, nil), not-found (the object
\* is created and initialized), another error, or the object
fetchClusterOperator(server, store) ==
    { [isNil |-> TRUE, co |-> NoClusterOperator, err |-> nil, server |-> server, submitted |-> <<>>],
      [isNil |-> TRUE, co |-> NoClusterOperator, err |-> errAPI, server |-> server, submitted |-> <<>>] }
    \cup (IF server.exists
          THEN { [isNil |-> FALSE, co |-> Fetched(server), err |-> nil, server |-> server, submitted |-> <<>>] }
          ELSE initializeClusterOperator(store))

\* what a sync run leaves: the server's object, the copies handed to
\* UpdateStatus, the error returned, and the object the run had fetched
Ran(f, u) == [fetched |-> f.co, got |-> f.err = nil /\ ~f.isNil, server |-> u.server, submitted |-> u.submitted, ret |-> u.ret]

\* a sync run that returns after its fetch, with error e
Returned(f, e) == [fetched |-> f.co, got |-> f.err = nil /\ ~f.isNil, server |-> f.server, submitted |-> f.submitted, ret |-> e]

\* updateStatus(co, status): existingCondition is nil when co has no condition
\* of the type, and existingCondition.Status then panics
updateStatus(f, c, status) ==
    IF FindStatusCondition(c.Conditions, status.Type) = 0
    THEN { Returned(f, errPanic) }
    ELSE { Ran(f, u) : u \in UNION { UpdateStatus(f.server, setMachineConfigPoolStatuses([c EXCEPT !.Conditions = SetStatusCondition(c.Conditions, status)], pool), f.submitted) : pool \in PoolResults } }

\* keeping the old version when either condition is true
KeepsOldVersion_Either(conds) ==
    IsStatusConditionTrue(conds, OperatorProgressing) \/ IsStatusConditionTrue(conds, OperatorFailing)

\* keep the old version and progressing if we fail progressing
KeepsOldVersion(conds) ==
    IsStatusConditionTrue(conds, OperatorProgressing) /\ IsStatusConditionTrue(conds, OperatorFailing)

syncVersionRuns(server, store) ==
    UNION { IF f.err # nil THEN { Returned(f, f.err) }
            ELSE IF f.isNil THEN { Returned(f, nil) }
            ELSE IF KeepsOldVersion(f.co.Conditions) THEN { Returned(f, nil) }
            ELSE { Ran(f, u) : u \in UNION { UpdateStatus(f.server, setMachineConfigPoolStatuses([f.co EXCEPT !.Versions = store], pool), f.submitted) : pool \in PoolResults } }
          : f \in fetchClusterOperator(server, store) }

syncAvailableStatusRuns(server, store) ==
    UNION { IF f.err # nil THEN { Returned(f, f.err) }
            ELSE IF f.isNil THEN { Returned(f, nil) }
            ELSE LET failing == IsStatusConditionTrue(f.co.Conditions, OperatorFailing)
                 IN updateStatus(f, f.co,
                       Condition(OperatorAvailable,
                                 IF failing THEN ConditionFalse ELSE ConditionTrue,
                                 IF failing THEN <<"Cluster not available for", store>> ELSE <<"Cluster has deployed", store>>,
                                 ""))
          : f \in fetchClusterOperator(server, store) }

syncProgressingStatusRuns(server, store, bringup) ==
    UNION { IF f.err # nil THEN { Returned(f, f.err) }
            ELSE IF f.isNil THEN { Returned(f, nil) }
            ELSE updateStatus(f, f.co,
                    IF store = f.co.Versions
                    THEN (IF bringup
                          THEN Condition(OperatorProgressing, ConditionTrue, <<"Cluster is bootstrapping", store>>, "")
                          ELSE Condition(OperatorProgressing, ConditionFalse, <<"Cluster version is", store>>, ""))
                    ELSE Condition(OperatorProgressing, ConditionTrue, <<"Working towards", store>>, ""))
          : f \in fetchClusterOperator(server, store) }

\* the copy of syncFailingStatus after its "set progressing" block
ProgressingOnError(c, store) ==
    IF IsStatusConditionTrue(c.Conditions, OperatorProgressing)
    THEN [c EXCEPT !.Conditions = SetStatusCondition(c.Conditions, Condition(OperatorProgressing, ConditionTrue, <<"Unable to apply", store>>, ""))]
    ELSE [c EXCEPT !.Conditions = SetStatusCondition(c.Conditions, Condition(OperatorProgressing, ConditionFalse, <<"Error while reconciling", store>>, ""))]

syncFailingStatusRuns(server, store, ierr) ==
    UNION { IF f.err # nil THEN { Returned(f, f.err) }
            ELSE IF f.isNil THEN { Returned(f, nil) }
            ELSE IF ierr = nil
            THEN updateStatus(f, f.co, Condition(OperatorFailing, ConditionFalse, <<>>, ""))
            ELSE updateStatus(f, ProgressingOnError(f.co, store),
                    Condition(OperatorFailing, ConditionTrue,
                              IF store = f.co.Versions
                              THEN <<"Failed to resync", store, ierr.msg>>
                              ELSE <<"Unable to apply", store, ierr.msg>>,
                              ierr.msg))
          : f \in fetchClusterOperator(server, store) }

\* an object whose three conditions have been reported
Reported(av, pr, fa, vers) ==
    [exists |-> TRUE,
     Conditions |-> <<Condition(OperatorAvailable, av, <<>>, ""),
                      Condition(OperatorProgressing, pr, <<>>, ""),
                      Condition(OperatorFailing, fa, <<>>, "")>>,
     Versions |-> vers,
     Raw |-> "none",
     RelatedObjects |-> TRUE]

ConditionStatuses == { ConditionTrue, ConditionFalse }

InitStatus ==
    /\ ClientIdle
    /\ ReaderInit
    /\ ExecInit
    /\ StubInit
    /\ PluginInit
    /\ InhibitInit
    /\ clusterOperator \in { NoClusterOperator }
          \cup { Reported(av, pr, fa, vers) : av \in ConditionStatuses, pr \in ConditionStatuses, fa \in ConditionStatuses, vers \in {"v1", "v2"} }
    /\ vStore = "v2"
    /\ inClusterBringup \in BOOLEAN
    /\ syncs = <<>>

\* a sync has panicked: the operator process is gone
Panicked == \E i \in DOMAIN syncs : syncs[i].ret = errPanic

\* one run of a sync function, recorded
Synced(name, ierr, r) ==
    /\ clusterOperator' = r.server
    /\ syncs' = Append(syncs, [op |-> name, ierr |-> ierr, before |-> clusterOperator,
                               fetched |-> r.fetched, got |-> r.got, submitted |-> r.submitted, ret |-> r.ret])
    /\ UNCHANGED <<vStore, inClusterBringup, outsideStatus>>

syncVersion ==
    /\ Len(syncs) < MaxSyncs /\ ~Panicked
    /\ \E r \in syncVersionRuns(clusterOperator, vStore) : Synced("syncVersion", nil, r)

syncAvailableStatus ==
    /\ Len(syncs) < MaxSyncs /\ ~Panicked
    /\ \E r \in syncAvailableStatusRuns(clusterOperator, vStore) : Synced("syncAvailableStatus", nil, r)

syncProgressingStatus ==
    /\ Len(syncs) < MaxSyncs /\ ~Panicked
    /\ \E r \in syncProgressingStatusRuns(clusterOperator, vStore, inClusterBringup) : Synced("syncProgressingStatus", nil, r)

syncFailingStatus ==
    /\ Len(syncs) < MaxSyncs /\ ~Panicked
    /\ \E ierr \in SyncErrors :
         \E r \in syncFailingStatusRuns(clusterOperator, vStore, ierr) : Synced("syncFailingStatus", ierr, r)

NextStatus == syncVersion \/ syncAvailableStatus \/ syncProgressingStatus \/ syncFailingStatus

SpecStatus == InitStatus /\ [][NextStatus]_vars

(***************************************************************************)
(* Reading the trace.                                                      *)
(***************************************************************************)
Idx == 1..Len(trace)

IsExec(e, command, sub) == e.kind = "exec" /\ Len(e.argv) >= 2 /\ e.argv[1] = command /\ e.argv[2] = sub

Returning == pc \in {"deferred", "done"}

\* the rebase invocation handed to runRpmOstree
RebaseCalled(i) == trace[i].kind = "call" /\ trace[i].argv[1] = sRebase

\* a rebase run on the host by the rpm-ostree binary
RebaseExecuted(i) ==
    /\ trace[i].kind = "exec"
    /\ trace[i].argv[1] = realRpmOstreeCmd
    /\ \E k \in DOMAIN trace[i].argv : trace[i].argv[k] \in {sRebase, sCustomOriginUrl}

RebaseIssued(i) == RebaseCalled(i) \/ RebaseExecuted(i)

NoRebaseIssued == \A i \in Idx : ~RebaseIssued(i)

PullFallback(e) == IsExec(e, sPodman, sPull) \/ IsExec(e, sPodman, sInspect)

RepoFallback(e) == IsExec(e, sOstree, sRefs) \/ IsExec(e, sOstree, sRevParse)

ResolutionStep(e) == e.kind = "imageInspect" \/ PullFallback(e) \/ RepoFallback(e)

FailedPulls == { i \in Idx : IsExec(trace[i], sPodman, sPull) /\ ~trace[i].ok }

\* the references a listing names: its non-blank lines
RECURSIVE NonBlank(_)
NonBlank(lines) ==
    IF lines = <<>> THEN <<>>
    ELSE IF TrimSpace(Head(lines)) = <<>> THEN NonBlank(Tail(lines))
    ELSE <<TrimSpace(Head(lines))>> \o NonBlank(Tail(lines))

ListedRefs(text) == NonBlank(Split(text, "\n"))

\* the target the rebase invocation names: its second word
RebaseTarget(i) == trace[i].argv[3]

(***************************************************************************)
(* Claims about Rebase.                                                    *)
(***************************************************************************)
\* C1: the rebase command is issued only after commit resolution has
\* completed (no resolution step follows it, the last one before it
\* succeeded) with a non-empty checksum; a failure of the pull fallback, of
\* the reference listing or of the reference resolution is the error Rebase
\* returns, and then no rebase command is issued.  An inspection of the
\* pulled image that describes no image is such a failure as well.
C1_RebaseAfterResolution ==
    /\ \A i \in Idx : RebaseIssued(i) =>
          /\ ostreeCsum # <<>>
          /\ \A j \in Idx : ResolutionStep(trace[j]) => j < i
          /\ \E j \in 1..(i - 1) :
                /\ ResolutionStep(trace[j]) /\ trace[j].ok
                /\ \A k \in (j + 1)..(i - 1) : ~ResolutionStep(trace[k])
    /\ \A i \in Idx :
          (/\ IsExec(trace[i], sPodman, sInspect) \/ RepoFallback(trace[i])
           /\ ~trace[i].ok)
          => /\ Returning
             /\ err = errRunning(trace[i].argv[1], Tail(trace[i].argv))
             /\ NoRebaseIssued
    /\ Cardinality(FailedPulls) >= numRetriesNetCommands
          => Returning /\ err = errPull /\ NoRebaseIssued
    /\ \A i \in Idx :
          (IsExec(trace[i], sPodman, sInspect) /\ trace[i].ok /\ ~trace[i].out.parses)
          => Returning /\ err = errUnmarshalInspect /\ NoRebaseIssued
    /\ \A i \in Idx :
          (IsExec(trace[i], sPodman, sInspect) /\ trace[i].ok /\ trace[i].out.parses /\ trace[i].out.images = <<>>)
          => Returning /\ err # nil /\ NoRebaseIssued
    /\ \A i \in Idx :
          (IsExec(trace[i], sOstree, sRefs) /\ trace[i].ok /\ Len(ListedRefs(trace[i].out)) >= 2)
          => Returning /\ err = errMultipleRefs /\ NoRebaseIssued

\* C2: once resolution has succeeded and no rebase run on the host has
\* failed, Rebase has run the rebase command on the host exactly once, as
\* rpm-ostree rebase --experimental <dir>/srv/repo:<checksum>
\* --custom-origin-url pivot://<imgURL> --custom-origin-description <fixed>,
\* and returns changed = true with no error.
C2_RebaseRunsOnce ==
    (/\ pc = "done"
     /\ \E i \in Idx : RebaseCalled(i)
     /\ \A i \in Idx : RebaseExecuted(i) => trace[i].ok)
    => /\ Cardinality({ i \in Idx : RebaseExecuted(i) }) = 1
       /\ \A i \in Idx : RebaseExecuted(i) =>
             trace[i].argv = <<realRpmOstreeCmd, sRebase>> \o RebaseArgs(repo, ostreeCsum, imgURL)
       /\ changed
       /\ err = nil

\* C3: when direct image inspection succeeds with a non-empty commit label,
\* no podman pull, podman inspect, ostree refs or ostree rev-parse is run,
\* and the rebase is issued for <repo>:<label>.
C3_ResolutionCascade ==
    \A i \in Idx :
       (trace[i].kind = "imageInspect" /\ trace[i].ok /\ trace[i].out # <<>>)
       => /\ \A j \in Idx : ~PullFallback(trace[j]) /\ ~RepoFallback(trace[j])
          /\ ostreeCsum = trace[i].out
          /\ \A j \in Idx : RebaseIssued(j) => RebaseTarget(j) = repo \o sColon \o trace[i].out
          /\ Returning => \E j \in Idx : RebaseCalled(j)

\* C3 witness: Rebase returned after a direct inspection that gave the label.
C3_Witness ==
    /\ pc = "done"
    /\ \E i \in Idx : trace[i].kind = "imageInspect" /\ trace[i].ok /\ trace[i].out = Csum
    /\ \E j \in Idx : RebaseCalled(j) /\ RebaseTarget(j) = repo \o sColon \o Csum

\* C4: with no commit label, a listing of two or more references makes
\* Rebase fail with no rebase issued; a listing of exactly one reference has
\* that reference resolved, and the resolution's trimmed output is the
\* checksum the rebase is issued for.
C4_LocalRepository ==
    \A i \in Idx :
       (IsExec(trace[i], sOstree, sRefs) /\ trace[i].ok)
       => /\ Len(ListedRefs(trace[i].out)) >= 2
             => Returning /\ err # nil /\ NoRebaseIssued
          /\ Len(ListedRefs(trace[i].out)) = 1
             => /\ pc # "revParse" =>
                      /\ i < Len(trace)
                      /\ IsExec(trace[i + 1], sOstree, sRevParse)
                      /\ trace[i + 1].argv = <<sOstree, sRevParse, sRepoFlag, repo, ListedRefs(trace[i].out)[1]>>
                      /\ trace[i + 1].ok =>
                            /\ ostreeCsum = TrimSpace(trace[i + 1].out)
                            /\ pc # "rebase" =>
                                  \E j \in Idx : RebaseCalled(j) /\ RebaseTarget(j) = repo \o sColon \o TrimSpace(trace[i + 1].out)

\* C4 witness: Rebase returned after resolving the one listed reference.
C4_Witness ==
    /\ pc = "done"
    /\ \E i \in Idx :
          /\ IsExec(trace[i], sOstree, sRefs) /\ trace[i].ok
          /\ Len(ListedRefs(trace[i].out)) = 1
          /\ trace[i + 1].ok
          /\ \E j \in Idx : RebaseCalled(j)

\* C5: with no commit label and an empty reference listing, rev-parse is
\* never run, no rebase is issued, and Rebase returns the error that no
\* reference was found.
C5_NoRefs ==
    \A i \in Idx :
       (IsExec(trace[i], sOstree, sRefs) /\ trace[i].ok /\ ListedRefs(trace[i].out) = <<>>)
       => /\ \A j \in Idx : ~IsExec(trace[j], sOstree, sRevParse)
          /\ NoRebaseIssued
          /\ pc = "done" => err = errNoRefs

\* C6: when Rebase returns after attempting the fallback pull, podman rmi
\* has been run after the pull.
C6_RmiAfterPull ==
    pc = "done" =>
       \A i \in Idx : IsExec(trace[i], sPodman, sPull) =>
          \E j \in Idx : j > i /\ IsExec(trace[j], sPodman, sRmi)

(***************************************************************************)
(* Claims about GetBootedOSImageURL and SetKernelArgs.                     *)
(***************************************************************************)
RoundTripRefs == ImageRefs \cup { sPivot \o R : R \in ImageRefs }

\* the status query ran and succeeded
StatusRead == \E i \in Idx : trace[i].kind = "exec" /\ trace[i].ok

\* the booted deployment of a parsed status: its first booted entry
IsBootedEntry(k) ==
    /\ hostStatus.parses
    /\ k \in DOMAIN hostStatus.Deployments
    /\ hostStatus.Deployments[k].Booted
    /\ \A j \in 1..(k - 1) : ~hostStatus.Deployments[j].Booted

\* C7: when the first custom-origin element of the booted deployment is the
\* custom-origin URL Rebase builds for an image reference R,
\* GetBootedOSImageURL returns R, the deployment's version and no error.
C7_CustomOriginRoundTrip ==
    (pc = "done" /\ StatusRead) =>
       \A k \in DOMAIN hostStatus.Deployments : \A R \in RoundTripRefs :
          (/\ IsBootedEntry(k)
           /\ Len(hostStatus.Deployments[k].CustomOrigin) > 0
           /\ hostStatus.Deployments[k].CustomOrigin[1] = RebaseArgs(<<>>, <<>>, R)[4])
          => /\ osImageURL = R
             /\ version = hostStatus.Deployments[k].Version
             /\ err = nil

\* C7 witness: GetBootedOSImageURL returned the reference p/: that the booted
\* deployment's custom origin encodes.
C7_Witness ==
    /\ pc = "done"
    /\ err = nil
    /\ osImageURL = <<"p", "/", ":">>
    /\ \E k \in DOMAIN hostStatus.Deployments :
          /\ IsBootedEntry(k)
          /\ hostStatus.Deployments[k].CustomOrigin[1] = RebaseArgs(<<>>, <<>>, <<"p", "/", ":">>)[4]

\* the host's active kernel arguments when SetKernelArgs was entered
ActiveKargs == quoteSpaceSplit(hostKargs0)

\* every request is a Remove and no active kernel argument has any of the
\* requested tokens as a prefix
OnlyAbsentRemovals ==
    /\ args # <<>>
    /\ \A k \in DOMAIN args : args[k].Operation = kargRemove
    /\ \A k \in DOMAIN ExpandArgs(args) :
          \A a \in DOMAIN ActiveKargs : ~HasPrefix(ActiveKargs[a], ExpandArgs(args)[k].sv)

IsFlag(s) == HasPrefix(s, sAppend) \/ HasPrefix(s, sDelete)

\* an invocation, called or run, that carries a flag
CarriesFlag(e) == \E k \in DOMAIN e.argv : IsFlag(e.argv[k])

NoQueryFailed == \A i \in Idx : trace[i].ok

\* C8: a request list of Remove operations whose tokens are all absent
\* queues nothing, issues and runs no invocation carrying a flag (only
\* flagless queries), leaves the host's kernel arguments as they were, and,
\* its queries having succeeded, returns empty output and no error.
C8_IdempotentRemoval ==
    (pc \in {"kargLoop", "done"} /\ OnlyAbsentRemovals) =>
       /\ kargs = <<>>
       /\ \A i \in Idx : ~CarriesFlag(trace[i])
       /\ hostKargs = hostKargs0
       /\ (pc = "done" /\ NoQueryFailed) => out = <<>> /\ err = nil

\* C8 witness: SetKernelArgs returned from two absent removals, after
\* querying the host's non-empty kernel arguments.
C8_Witness ==
    /\ pc = "done"
    /\ OnlyAbsentRemovals
    /\ Len(ExpandArgs(args)) >= 2
    /\ hostKargs0 # <<>>
    /\ NoQueryFailed
    /\ Len(trace) >= 2

RECURSIVE DropEmpty(_)
DropEmpty(fields) ==
    IF fields = <<>> THEN <<>>
    ELSE IF Head(fields) = <<>> THEN DropEmpty(Tail(fields))
    ELSE <<Head(fields)>> \o DropEmpty(Tail(fields))

HasQuote(name) == \E k \in DOMAIN name : name[k] = "\""

\* name is wrapped in one pair of double quotes
Wrapped(name) ==
    /\ Len(name) >= 2
    /\ name[1] = "\""
    /\ name[Len(name)] = "\""
    /\ ~HasQuote(SubSeq(name, 2, Len(name) - 1))

\* the space-separated tokens of a composite, its wrapping quotes set aside
PlainTokens(name) ==
    DropEmpty(Split(IF Wrapped(name) THEN SubSeq(name, 2, Len(name) - 1) ELSE name, " "))

\* the request list holding one KernelArgument of v's operation per token
PerToken(v) ==
    [k \in 1..Len(PlainTokens(v.Name)) |-> [Operation |-> v.Operation, Name |-> PlainTokens(v.Name)[k]]]

\* the flags a list of expanded tokens queues against the active arguments
RECURSIVE FlagsFor(_)
FlagsFor(toks) ==
    IF toks = <<>> THEN <<>>
    ELSE (IF Head(toks).Operation = kargAdd THEN <<AppendFlag(Head(toks).sv)>>
          ELSE IF InUse(ActiveKargs, Head(toks).sv) THEN <<DeleteFlag(Head(toks).sv)>>
          ELSE <<>>) \o FlagsFor(Tail(toks))

\* SetKernelArgs got one composite request and has gone through all of it
CompositeDone ==
    /\ pc = "done"
    /\ Len(args) = 1
    /\ Len(PlainTokens(args[1].Name)) >= 2
    /\ tokIdx > Len(ExpandArgs(args))

\* C9 as stated: one composite request, wrapped in double quotes or not,
\* queues the flags that the list of one request per token queues.
C9_CompositeExpansion ==
    CompositeDone => kargs = FlagsFor(ExpandArgs(PerToken(args[1])))

\* C9 amended: a composite with no double quote in it queues the flags of
\* the list of one request per token; a composite wrapped in double quotes
\* is one token, quotes included, and queues at most the one flag for it.
C9_CompositeExpansionUnquoted ==
    CompositeDone =>
       /\ ~HasQuote(args[1].Name) => kargs = FlagsFor(ExpandArgs(PerToken(args[1])))
       /\ Wrapped(args[1].Name) => kargs = FlagsFor(<<[Operation |-> args[1].Operation, sv |-> args[1].Name]>>)

\* C9 witness: the unquoted composite "a b", added, queued two flags.
C9_Witness ==
    /\ pc = "done"
    /\ args = <<[Operation |-> kargAdd, Name |-> <<"a", " ", "b">>]>>
    /\ kargs = <<AppendFlag(<<"a">>), AppendFlag(<<"b">>)>>

\* a set command run on the host: it carries flags
SetRun(i) == trace[i].kind = "exec" /\ CarriesFlag(trace[i])

\* a presence query: the flagless invocation
QueryEv(i) == ~CarriesFlag(trace[i])

\* C10: every presence query comes before any set command; a failed query
\* is the error returned, with no set command; and when SetKernelArgs
\* returns with all queries answered, the host has run no set command if
\* nothing was queued and otherwise exactly one, carrying all queued flags
\* in request order.
C10_OneCombinedSetCommand ==
    /\ \A i \in Idx : \A j \in Idx : (QueryEv(i) /\ CarriesFlag(trace[j])) => i < j
    /\ \A i \in Idx : (QueryEv(i) /\ ~trace[i].ok) =>
          /\ pc = "done"
          /\ err = errRunning(trace[i].argv[1], Tail(trace[i].argv))
          /\ \A j \in Idx : ~CarriesFlag(trace[j])
    /\ (pc = "done" /\ \A i \in Idx : QueryEv(i) => trace[i].ok) =>
          /\ Cardinality({ i \in Idx : SetRun(i) }) = (IF kargs = <<>> THEN 0 ELSE 1)
          /\ \A i \in Idx : SetRun(i) =>
                SubSeq(trace[i].argv, Len(trace[i].argv) - Len(kargs) + 1, Len(trace[i].argv)) = kargs

(***************************************************************************)
(* GetBootedDeployment.                                                    *)
(***************************************************************************)
\* the positions of the booted entries of the host's status
BootedEntries == { k \in DOMAIN hostStatus.Deployments : hostStatus.Deployments[k].Booted }

\* the status query was run on the host and failed
StatusFailed == \E i \in Idx : trace[i].kind = "exec" /\ ~trace[i].ok

\* C11: GetBootedDeployment returns a copy of the booted entry of the parsed
\* list, the first one in list order when several are marked booted; it
\* returns no deployment and the error "not currently booted in a
\* deployment" when none is marked, and no deployment and an error when the
\* status command fails or its output does not parse.
C11_BootedDeployment ==
    pc = "booted" =>
       IF StatusFailed \/ ~hostStatus.parses
       THEN deployment.isNil /\ err # nil
       ELSE IF BootedEntries = {}
       THEN deployment.isNil /\ err = errNotBooted
       ELSE /\ err = nil
            /\ ~deployment.isNil
            /\ \E k \in BootedEntries :
                  /\ \A j \in BootedEntries : k <= j
                  /\ deployment.d = hostStatus.Deployments[k]

\* C11 witness: of two booted entries d2 and d3, GetBootedDeployment returned
\* d2.
C11_Witness ==
    /\ pc = "booted"
    /\ Cardinality(BootedEntries) = 2
    /\ err = nil
    /\ deployment.d.ID = "d2"

(***************************************************************************)
(* notCoreOSClient.                                                        *)
(***************************************************************************)
StubMutators == { "Rebase", "SetKernelArgs", "RemovePendingDeployment", "RunRpmOstree" }

\* C12: on the stub, Rebase, SetKernelArgs, RemovePendingDeployment and
\* RunRpmOstree return the error "operating system is not a CoreOS Variant",
\* Rebase reports no change, GetBootedDeployment returns a zero-value
\* deployment (not nil) and no error, and after any sequence of calls no
\* external command has been called or run.
C12_StubIsInert ==
    /\ stubOp \in StubMutators => err = Err("operating system is not a CoreOS Variant")
    /\ stubOp = "Rebase" => ~changed
    /\ stubOp = "GetBootedDeployment" =>
          /\ err = nil
          /\ ~deployment.isNil
          /\ deployment.d = Dep("", <<>>, FALSE, <<>>)
    /\ trace = <<>>

\* C12 witness: Rebase was called on the stub after two other calls, one of
\* them GetBootedDeployment, and returned the sentinel.
C12_Witness ==
    /\ stubOp = "Rebase"
    /\ stubCalls = MaxStubCalls
    /\ imgURL = <<"q", "/", "i">>
    /\ ~deployment.isNil
    /\ err.msg = "operating system is not a CoreOS Variant"

(***************************************************************************)
(* GetBootedOSImageURL on other origins.                                   *)
(***************************************************************************)
\* GetBootedDeployment fails: the status command fails, its output does not
\* parse, or no entry is marked booted
ReadFails == StatusFailed \/ ~hostStatus.parses \/ BootedEntries = {}

\* the booted entry GetBootedDeployment finds
BootedEntry == hostStatus.Deployments[CHOOSE k \in BootedEntries : \A j \in BootedEntries : k <= j]

\* C13: GetBootedOSImageURL returns an error exactly when GetBootedDeployment
\* fails; otherwise it returns the booted deployment's version, and an empty
\* URL when that deployment has no custom origin or its first custom-origin
\* element does not start with pivot://.
C13_UntaggedOrigin ==
    pc = "done" =>
       /\ err # nil <=> ReadFails
       /\ ~ReadFails =>
             /\ version = BootedEntry.Version
             /\ (\/ BootedEntry.CustomOrigin = <<>>
                 \/ Len(BootedEntry.CustomOrigin[1]) < 8
                 \/ SubSeq(BootedEntry.CustomOrigin[1], 1, 8) # <<"p", "i", "v", "o", "t", ":", "/", "/">>)
                => osImageURL = <<>>

\* C13 witness: the booted deployment's custom origin is "man";
\* GetBootedOSImageURL returned the empty URL, version 4 and no error.
C13_Witness ==
    /\ pc = "done"
    /\ ~ReadFails
    /\ BootedEntry.CustomOrigin = << <<"m", "a", "n">> >>
    /\ osImageURL = <<>>
    /\ version = <<"4">>
    /\ err = nil

(***************************************************************************)
(* The read of the booted deployment at the start of Rebase.               *)
(***************************************************************************)
\* Rebase is past its read of the booted deployment
PastRead == pc \notin {"idle", "GetBootedDeployment"}

\* the read at the start of Rebase failed: its status command (the second
\* event, after the call of the commander) failed, or GetBootedDeployment
\* found no booted entry in what it printed
RebaseReadFailed ==
    \/ Len(trace) >= 2 /\ trace[2].kind = "exec" /\ ~trace[2].ok
    \/ ~hostStatus.parses
    \/ BootedEntries = {}

ResolutionEntered == pc = "imageInspect" \/ \E i \in Idx : ResolutionStep(trace[i])

\* C14 as stated: whatever the read of the booted deployment yields, a failed
\* read included, Rebase proceeds to commit resolution.
C14_ReadNeverBlocks == PastRead => ResolutionEntered

\* C14: a read that succeeds never blocks the rebase, whatever custom origin
\* the booted deployment has: Rebase proceeds to commit resolution.  A read
\* that fails ends Rebase: it returns the read's error and no change, and
\* neither resolves a commit nor issues a rebase.
C14_OnlyFailedReadBlocks ==
    PastRead =>
       IF RebaseReadFailed
       THEN /\ pc = "done"
            /\ err # nil
            /\ ~changed
            /\ ~ResolutionEntered
            /\ NoRebaseIssued
       ELSE ResolutionEntered

\* C14 witness: the booted deployment has the custom origin pivot://q, the
\* read succeeded, and Rebase went on to inspect the image and call the
\* rebase.
C14_Witness ==
    /\ ~RebaseReadFailed
    /\ BootedEntry.CustomOrigin # <<>>
    /\ \E i \in Idx : trace[i].kind = "imageInspect"
    /\ \E i \in Idx : RebaseCalled(i)

(***************************************************************************)
(* Plugin harness.                                                         *)
(***************************************************************************)
Tasks == DOMAIN taskPc

\* task t has called the Exec of a plugin
Started(t) == taskPc[t] \in {"inExec", "send", "sent", "releasing", "finished"}

\* the tasks that have called the Exec of plugin q
Invocations(q) == { t \in Tasks : Started(t) /\ taskPlugin[t] = q }

\* ExecPlugins has launched all of its tasks
AllLaunched == callerPc \in {"return", "sleep", "exited"}

\* C15: one call of ExecPlugins invokes the Exec of each registered plugin
\* exactly once: no plugin's Exec is ever called by two tasks, and once every
\* launched task has called Exec, every registered plugin's Exec has been
\* called.  (Every call receives the one stop channel of ExecPlugins.)
C15_EachPluginOnce ==
    /\ \A q \in 1..Len(plugins) : Cardinality(Invocations(q)) <= 1
    /\ (AllLaunched /\ \A t \in Tasks : Started(t)) =>
          \A q \in 1..Len(plugins) : Cardinality(Invocations(q)) = 1

\* the reporting task is past wg.Wait()
WaitReturned == reporterPc \in {"print", "range"}

\* C16: the reporting task's wait returns only when every launched task has
\* finished, and no task's terminal error is reported twice.
C16_WaitCoversEveryTask ==
    /\ WaitReturned => \A t \in Tasks : taskPc[t] = "finished"
    /\ \A i, j \in DOMAIN reported : reported[i].task = reported[j].task => i = j

\* C17: ExecPlugins never waits: while it runs, its caller's goroutine can
\* always take its next step, whatever the tasks do, and it has returned
\* before stop is closed.  A plugin whose Exec blocks on stop does not finish
\* while stop is open: it runs until the caller closes stop.
C17_ReturnsWithoutWaiting ==
    /\ callerPc \in {"loop", "return"} => ENABLED ExecPluginsStep
    /\ callerPc \in {"loop", "return", "sleep"} => stop = "open"
    /\ stop = "open" => \A t \in Tasks : taskPc[t] \notin {"send", "sent", "releasing", "finished"}

\* C17 witness: ExecPlugins has returned to TestDummy, stop is open and a
\* task is blocked inside Dummy.Exec.
C17_Witness ==
    /\ callerPc = "sleep"
    /\ stop = "open"
    /\ \E t \in Tasks : taskPc[t] = "inExec"

(***************************************************************************)
(* Power-state inhibition.                                                 *)
(***************************************************************************)
\* C18: once systemdInhibit has started the inhibitor child, every release,
\* whether the caller invokes the returned function or the watcher runs it on
\* a watched signal, runs to completion without failing, and after it the
\* child is no longer running.
C18_ReleaseGuaranteed ==
    cmdProcess # "nil" =>
       \A i \in DOMAIN doneRuns :
          /\ doneRuns[i].outcome # "panic"
          /\ child # "running"

(***************************************************************************)
(* The command executor.                                                   *)
(***************************************************************************)
\* the commands run on the host
Execs == { i \in Idx : trace[i].kind = "exec" }

\* C19: runRpmOstree(noun, args...) runs the rpm-ostree binary once, with the
\* noun followed by all of the args, whatever their number; it returns the
\* command's output, and an error only when the command fails.
C19_RunsNounAndArgs ==
    pc = "done" =>
       /\ Cardinality(Execs) = 1
       /\ \A i \in Execs :
             /\ trace[i].argv = <<realRpmOstreeCmd, argNoun>> \o args
             /\ trace[i].ok => (err = nil /\ out = trace[i].out)
             /\ err # nil => ~trace[i].ok

(***************************************************************************)
(* Rebase to the image the host is booted in.                              *)
(***************************************************************************)
\* the booted deployment's custom origin names the image Rebase is asked for
AlreadyRebased ==
    /\ ~RebaseReadFailed
    /\ BootedEntry.CustomOrigin # <<>>
    /\ BootedEntry.CustomOrigin[1] = <<"p", "i", "v", "o", "t", ":", "/", "/">> \o imgURL

\* C20: when the booted deployment's custom origin already encodes the
\* requested image, Rebase issues no rebase and reports changed = false.
C20_IdempotentRebase ==
    (PastRead /\ AlreadyRebased) =>
       /\ NoRebaseIssued
       /\ pc = "done" => ~changed

(***************************************************************************)
(* The pull fallback.                                                      *)
(***************************************************************************)
Pulls == { i \in Idx : IsExec(trace[i], sPodman, sPull) }

\* C21: the image is pulled at most 5 times; podman inspect is run only after
\* a pull that succeeded; and when five pulls have failed Rebase returns the
\* pull error, with no inspection of the pulled image, no reference listing,
\* no reference resolution and no rebase issued.
C21_PullBudget ==
    /\ Cardinality(Pulls) <= 5
    /\ \A i \in Idx : IsExec(trace[i], sPodman, sInspect) =>
          \E j \in Pulls : j < i /\ trace[j].ok
    /\ Cardinality(FailedPulls) >= 5 =>
          /\ pc = "done"
          /\ err.msg = "error running" /\ err.cmd = <<sPodman, sPull>>
          /\ ~changed
          /\ \A i \in Idx : ~IsExec(trace[i], sPodman, sInspect) /\ ~RepoFallback(trace[i])
          /\ NoRebaseIssued

\* C21 witness: five pulls failed and Rebase returned the pull error.
C21_Witness ==
    /\ pc = "done"
    /\ Cardinality(FailedPulls) = 5
    /\ err = errPull

(***************************************************************************)
(* Operator status.                                                        *)
(***************************************************************************)
\* the server's object after the i-th sync run
After(i) == IF i = Len(syncs) THEN clusterOperator ELSE syncs[i + 1].before

\* object c has a condition of type t with status st
Has(c, t, st) == \E k \in DOMAIN c.Conditions : c.Conditions[k].Type = t /\ c.Conditions[k].Status = st

ProgressingAndFailing(c) == Has(c, "Progressing", "True") /\ Has(c, "Failing", "True")

SyncVersionRuns == { i \in DOMAIN syncs : syncs[i].op = "syncVersion" }

\* C22 as stated: with Progressing and Failing both True syncVersion leaves
\* the object as it is and issues no update; in every other state it issues
\* exactly one update, which carries the version store's content.
C22_KeepsOldVersionOrUpdatesOnce ==
    \A i \in SyncVersionRuns :
       IF ProgressingAndFailing(syncs[i].before)
       THEN After(i) = syncs[i].before /\ syncs[i].submitted = <<>>
       ELSE /\ Len(syncs[i].submitted) = 1
            /\ syncs[i].submitted[1].Versions = vStore

\* C22: when syncVersion has fetched an existing ClusterOperator: with
\* Progressing and Failing both True it leaves the object as it is, issues no
\* update and returns no error; otherwise it issues exactly one update, whose
\* object carries the version store's content and the fetched conditions, and
\* the server holds that object if the update succeeds and its old one if
\* not.  When the fetch fails or finds no such kind, no update is issued and
\* the object stays as it is.  When there is no object, one is created and
\* initialized with an update of its own before syncVersion's update.
C22_KeepsOldVersionOfFetched ==
    \A i \in SyncVersionRuns :
       LET run == syncs[i]
       IN IF run.before.exists
          THEN IF ~run.got
               THEN run.submitted = <<>> /\ After(i) = run.before
               ELSE IF ProgressingAndFailing(run.before)
               THEN After(i) = run.before /\ run.submitted = <<>> /\ run.ret = nil
               ELSE /\ Len(run.submitted) = 1
                    /\ run.submitted[1].Versions = vStore
                    /\ run.submitted[1].Conditions = run.fetched.Conditions
                    /\ After(i) = IF run.ret = nil THEN run.submitted[1] ELSE run.before
          ELSE /\ Len(run.submitted) <= 2
               /\ \A k \in DOMAIN run.submitted : run.submitted[k].Versions = vStore
               /\ (run.got /\ ~ProgressingAndFailing(run.fetched)) => Len(run.submitted) = 2

\* C22 witness: syncVersion ran on an object with Progressing and Failing
\* True that reports v1 while the store holds v2, and the object still
\* reports v1.
C22_Witness ==
    /\ Len(syncs) = 1
    /\ syncs[1].op = "syncVersion"
    /\ syncs[1].got
    /\ ProgressingAndFailing(syncs[1].before)
    /\ syncs[1].before.Versions = "v1"
    /\ vStore = "v2"
    /\ clusterOperator.Versions = "v1"

\* the condition of type t of object c
ConditionOf(c, t) == c.Conditions[CHOOSE k \in DOMAIN c.Conditions : c.Conditions[k].Type = t]

\* the object of the last update a run issued
LastSubmitted(run) == run.submitted[Len(run.submitted)]

\* the run got an object to work on and handed its copy to UpdateStatus
Updated(run) == run.got /\ run.submitted # <<>> /\ run.ret # Err("panic: nil pointer dereference")

\* C23: a syncFailingStatus(ierr) that has fetched the ClusterOperator hands
\* on an object whose Failing is True if ierr is non-nil and False if it is
\* nil, and whose Progressing is True exactly if the fetched one's was (with
\* no error the Progressing condition is the fetched one); a
\* syncAvailableStatus that has fetched the ClusterOperator hands on an object
\* whose Available is False if the fetched Failing is True and True if not,
\* so that after a syncFailingStatus and a syncAvailableStatus that both
\* succeed, Available is False exactly when ierr was non-nil.
C23_FailingFollowsError ==
    \A i \in DOMAIN syncs :
       LET run == syncs[i]
       IN /\ (run.op = "syncFailingStatus" /\ run.got) =>
                /\ Updated(run)
                /\ Has(LastSubmitted(run), "Failing", IF run.ierr = nil THEN "False" ELSE "True")
                /\ Has(LastSubmitted(run), "Progressing", "True") <=> Has(run.fetched, "Progressing", "True")
                /\ run.ierr # nil => Has(LastSubmitted(run), "Progressing", "True") \/ Has(LastSubmitted(run), "Progressing", "False")
                /\ run.ierr = nil => ConditionOf(LastSubmitted(run), "Progressing") = ConditionOf(run.fetched, "Progressing")
          /\ (run.op = "syncAvailableStatus" /\ run.got) =>
                /\ Updated(run)
                /\ Has(LastSubmitted(run), "Available", IF Has(run.fetched, "Failing", "True") THEN "False" ELSE "True")
          /\ (/\ run.op = "syncAvailableStatus" /\ run.ret = nil /\ run.got
              /\ i > 1 /\ syncs[i - 1].op = "syncFailingStatus" /\ syncs[i - 1].ret = nil /\ syncs[i - 1].got) =>
                Has(After(i), "Available", "False") <=> syncs[i - 1].ierr # nil

(***************************************************************************)
(* The results Rebase returns.                                             *)
(***************************************************************************)
\* C24: whenever Rebase returns a non-nil error it returns changed = false,
\* the failure of the rebase command itself included.
C24_NoChangeWithFailure ==
    (Returning /\ err # nil) => ~changed

(***************************************************************************)
(* Delivery of the plugins' terminal errors.                               *)
(***************************************************************************)
\* C25: no plugin task ever blocks on delivering its terminal error: a task
\* that has its error to send always finds room in the channel, whatever the
\* reporting task has or has not read; and once stop is closed and the Exec
\* of every task has returned, every plugin task eventually terminates.
C25_DeliveryNeverBlocks ==
    /\ [](\A t \in Tasks : taskPc[t] = "send" => Len(perrs) < perrsCapacity(plugins))
    /\ (stop = "closed" /\ \A t \in Tasks : taskPc[t] \in {"send", "sent", "releasing", "finished"})
          ~> (\A t \in Tasks : taskPc[t] = "finished")

(***************************************************************************)
(* Running the release function in any state.                              *)
(***************************************************************************)
\* C26: the release function returned by systemdInhibit never fails, in
\* whatever state and however many times it is run, by the caller or by the
\* signal watcher: with the child started and never waited on, with the child
\* already exited, and with a child that failed to start; no goroutine of the
\* process panics in it.
C26_ReleaseIsSafe ==
    /\ \A i \in DOMAIN doneRuns : doneRuns[i].outcome \in {"released", "killed"}
    /\ ~Crashed

====
